---- MODULE Spec2Model ----
(***************************************************************************)
(* A model of the lume-lsp language server (the `State` server of lib.rs): *)
(* the VFS, the workspace controller (compile_workspace), the diagnostic   *)
(* router, the symbol index (SymbolLookup) and the notification handlers.  *)
(*                                                                         *)
(* Spec      is the server on every document: initialize, then one action  *)
(*           per notification and per step of compile_workspace.           *)
(* SpecDiag  is the server on one document, the driver emitting            *)
(*           diagnostics.                                                  *)
(* SpecPair, SpecTrio, SpecRerun keep the history of the last two          *)
(*           notifications.                                                *)
(* SpecMsg   adds the requests and the notifications the handlers panic on.*)
(* SpecBackend is the server of main.rs (backend.rs).                      *)
(* SpecLocation is State::location_of on every small content and position. *)
(* SpecTraverse is traverse (symbols/visitor.rs) on small HIRs.            *)
(* SpecGraph is the server with a graph whose first package fails to index.*)
(* SpecIndex is the symbol index on its own: the LocationVisitor's hooks   *)
(*           insert entries, from_hir returns, update_symbol_lookup        *)
(*           extends, lookup_position is queried.                          *)
(***************************************************************************)
EXTENDS Integers, Sequences, FiniteSets, TLC

VARIABLES
    \* ---- State (state.rs) ----
    workspace_root,     \* vfs.workspace_root: [path, slash]
    source_files,       \* vfs.source_files, in IndexMap order
    graph,              \* checked.graph: the packages of the last Ok(..)
    symbols,            \* checked.symbols
    error_files_prev,
    error_files_curr,
    dcx,                \* the diagnostics held by the DiagCtx
    \* ---- control ----
    pc,                 \* "start" | "init" | "listen" | "check" | "discover" |
                        \* "reopen" | "stopped" | "failed" | "panicked"
    ret,                \* compile_workspace: where its caller goes on
    iter_path,          \* open_document: the path the parent walk is at
    params,             \* open_document: the didOpen being handled
    \* ---- history ----
    emitted,            \* what the last compile put into the DiagCtx
    sent,               \* the notifications the last compile sent
    lastCompile,        \* "none" | "running" | "ok" | "err": the last compile
    hadDiag,            \* files sent a non-empty publish by the compile before
    lastPub,            \* per file: the diagnostics of the last publish for it
    lastNote,           \* per URI: what its last document notification asks of the VFS
    lastApplied,        \* per URI: the last notification the VFS acted on
    lastOk,             \* the packages of the last Ok(..) that check() returned
    workspace_folders,  \* the workspace_folders initialize was given
    recording,          \* whether the history of notifications is kept
    note,               \* the last document notification, and the state it met
    prevNote,           \* the document notification before that one
    request,            \* the last request taken from the incoming channel
    dequeued,           \* whether a message was taken from the incoming channel
    last_message,       \* the last one: "none" | "document" | "request" |
                        \* "notification" (another method) | "response"
    compiles,           \* the compile_workspace calls of the call in progress
                        \* (initialize up to its first recv, or a handler)
    outbox,             \* the Responses pushed to the dispatcher since then
    \* ---- SymbolLookup on its own (SpecIndex) ----
    vsyms,      \* LocationVisitor.symbols of the from_hir call in progress
    bsyms,      \* the local `symbols` of update_symbol_lookup
    produced,   \* history: the (location, kind) pairs the visitors produced
    phase,      \* "build" | "queried"
    query,      \* the Location last given to lookup_position
    hit,        \* what lookup_position returned for it
    \* ---- State::location_of on its own (SpecLocation) ----
    doc_content,    \* the content of the document, byte by byte
    doc_position,   \* the (line, column) given to location_of
    doc_location,   \* the Location it returned, once it has
    \* ---- traverse on its own (SpecTraverse) ----
    hir_map,        \* the HIR: nodes, statements and expressions by id
    visitor,        \* the visitor: symbols, the calls made, the last result
    traversed       \* whether traverse has returned

svars == <<workspace_root, source_files, graph, symbols, error_files_prev,
           error_files_curr, dcx, pc, ret, iter_path, params, emitted, sent,
           lastCompile, hadDiag, lastPub, lastNote, lastApplied, lastOk,
           workspace_folders, recording, note, prevNote, request, outbox,
           dequeued, last_message, compiles>>

\* the history of notifications, and the request being answered
nvars == <<recording, note, prevNote>>
qvars == <<workspace_folders, request, outbox>>

lvars == <<doc_content, doc_position, doc_location>>

tvars == <<hir_map, visitor, traversed>>

ivars == <<vsyms, bsyms, produced, phase, query, hit, lvars, tvars>>

vars == <<svars, ivars>>

----------------------------------------------------------------------------
(* Bounds *)

\* most entries the visitors produce in one index
MaxEntries == 3
\* the largest byte offset of a location
MaxPos == 2
\* the compile_workspace calls counted within one handler
MaxCompiles == 3
\* the longest document content, in bytes, and the largest line and column
MaxLen == 3

----------------------------------------------------------------------------
(* Sequence helpers *)

Range(s) == {s[i] : i \in 1..Len(s)}

IndexOf(s, x) == CHOOSE i \in 1..Len(s) : s[i] = x

RemoveAt(s, i) == SubSeq(s, 1, i - 1) \o SubSeq(s, i + 1, Len(s))

\* s with x put before the element now at 0-based index i
InsertAt(s, i, x) == SubSeq(s, 1, i) \o <<x>> \o SubSeq(s, i + 1, Len(s))

----------------------------------------------------------------------------
(* SymbolEntry, its order, and the IndexSet operations the index uses *)

NoEntry == [kind |-> "none"]

\* SourceFile identities the entries refer to: (package, id)
F1 == [package |-> 1, id |-> 1]
F2 == [package |-> 2, id |-> 1]

SymbolKinds == {"Type", "Call"}

SymbolEntry(f, s, e, k) == [file |-> f, start |-> s, end |-> e, kind |-> k]

\* Range<usize>::len(): end - start, 0 when end < start
RangeLen(e) == IF e.end >= e.start THEN e.end - e.start ELSE 0

Ordering(a, b) == IF a < b THEN -1 ELSE IF a > b THEN 1 ELSE 0

\* impl Ord for SymbolEntry: package, then file id, then range start
Cmp(a, b) ==
    IF Ordering(a.file.package, b.file.package) # 0
    THEN Ordering(a.file.package, b.file.package)
    ELSE IF Ordering(a.file.id, b.file.id) # 0
         THEN Ordering(a.file.id, b.file.id)
         ELSE Ordering(a.start, b.start)

\* slice::binary_search_by over the entries with |e| e.cmp(x):
\* [found |-> TRUE, at |-> i] for Ok(i), [found |-> FALSE, at |-> i] for Err(i)
\* (0-based i).  On a slice that is not sorted the answer is whatever the
\* halving steps arrive at.
RECURSIVE BinarySearchFrom(_, _, _, _)
BinarySearchFrom(s, x, base, size) ==
    IF size > 1
    THEN LET half == size \div 2
             mid == base + half
         IN BinarySearchFrom(s, x,
                             IF Cmp(s[mid + 1], x) = 1 THEN base ELSE mid,
                             size - half)
    ELSE LET c == Cmp(s[base + 1], x)
         IN IF c = 0
            THEN [found |-> TRUE, at |-> base]
            ELSE [found |-> FALSE, at |-> base + (IF c = -1 THEN 1 ELSE 0)]

binary_search(s, x) ==
    IF Len(s) = 0 THEN [found |-> FALSE, at |-> 0]
    ELSE BinarySearchFrom(s, x, 0, Len(s))

\* IndexSet::insert_before(index, value): a value already in the set is moved
\* to the index, a new one is shifted in
insert_before(s, i, x) ==
    IF x \in Range(s)
    THEN LET j == IndexOf(s, x) - 1
             k == IF i > j THEN i - 1 ELSE i
         IN InsertAt(RemoveAt(s, j + 1), k, x)
    ELSE InsertAt(s, i, x)

\* IndexSet::insert_sorted(value): binary search by Ord; an entry that compares
\* Equal to the value is kept and the value dropped
insert_sorted(s, x) ==
    LET r == binary_search(s, x)
    IN IF r.found THEN s ELSE insert_before(s, r.at, x)

\* IndexSet::insert(value): appended unless an equal (Hash + Eq) value is there
insert(s, x) == IF x \in Range(s) THEN s ELSE Append(s, x)

\* SymbolLookup::extend(other): IndexSet::extend, an insert per entry
RECURSIVE extend(_, _)
extend(s, other) ==
    IF other = <<>> THEN s
    ELSE extend(insert(s, Head(other)), Tail(other))

\* the filter closure with the span's end taken as exclusive (a token's
\* closing boundary no longer resolves to it)
WithinRange_ExclusiveEnd(sym, location) ==
    /\ sym.file = location.file
    /\ sym.start <= location.start
    /\ sym.end > location.start

\* the filter closure of lookup_position
WithinRange(sym, location) ==
    /\ sym.file = location.file
    /\ sym.start <= location.start
    /\ sym.end >= location.start

\* Iterator::min_by_key(|sym| sym.location.index.len()): the first of the
\* candidates with the least key, in iteration order
RECURSIVE MinByKey(_, _)
MinByKey(cands, best) ==
    IF cands = <<>> THEN best
    ELSE MinByKey(Tail(cands),
                  IF best = NoEntry \/ RangeLen(Head(cands)) < RangeLen(best)
                  THEN Head(cands) ELSE best)

\* SymbolLookup::lookup_position(location)
lookup_position(s, location) ==
    LET symbols_within_range == SelectSeq(s, LAMBDA sym : WithinRange(sym, location))
    IN MinByKey(symbols_within_range, NoEntry)

----------------------------------------------------------------------------
(* The world the server runs in: documents, the file system, the compiler *)

\* one more bound: the diagnostics the driver may put into the DiagCtx before
\* it is drained
MaxDcx == 2

\* a document URI: its path, as components, and what else the URI carries
\* (scheme, authority, query, fragment), which Uri::path() leaves out
Uri(p, r) == [path |-> p, rest |-> r]

FileA == Uri(<<"ws", "a.lm">>, "file")
FileB == Uri(<<"ws", "b.lm">>, "file")
FileC == Uri(<<"ot", "a.lm">>, "file")
\* the same path as FileA under another scheme (a revision of the file)
FileAv == Uri(<<"ws", "a.lm">>, "git")
Uris == {FileA, FileB, FileC, FileAv}
Texts == {"t1", "t2"}

\* the directories that hold an Arcfile
ArcfileDirs == {<<"ws">>}

\* the workspace folders the client may name
WorkspaceFolders == {<<"ws">>, <<"ot">>}

\* InitializeParams.workspace_folders: None, or a list of folders
Folders(list) == [present |-> TRUE, list |-> list]
NoFolders == [present |-> FALSE, list |-> <<>>]
InitializeParams ==
    {NoFolders, Folders(<<>>), Folders(<< <<"ws">> >>), Folders(<< <<"ot">>, <<"ws">> >>)}
\* vfs.workspace_root while no State is built
NoRoot == [path |-> <<>>, slash |-> FALSE]

NoSource == [name |-> <<>>]
NoDocument == [uri |-> <<>>]
NoParams == [uri |-> <<>>, text |-> ""]

F3 == [package |-> 1, id |-> 2]

SourceFile(i, n, c, p) == [id |-> i, name |-> n, content |-> c, package |-> p]

\* HIR as the calls its traversal makes on the LocationVisitor
Visit(h, e) == [hook |-> h, entry |-> e]

Hir1 == << Visit("type", SymbolEntry(F1, 1, 2, "Type")),
           Visit("expr", SymbolEntry(F1, 0, 1, "Call")),
           Visit("path", SymbolEntry(F3, 0, 2, "Type")) >>
Hir2 == << Visit("type", SymbolEntry(F1, 0, 2, "Type")),
           Visit("type", SymbolEntry(F1, 0, 1, "Type")) >>
Hir3 == << Visit("expr", SymbolEntry(F2, 0, 1, "Call")) >>

Package(p, srcs, hir, ok) == [package |-> p, sources |-> srcs, hir |-> hir, hir_ok |-> ok]

\* CheckedPackageGraph::default()
EmptyGraph == <<>>
\* one package listing a.lm and b.lm
Graph1 == << Package(1, <<SourceFile(F1, <<"a.lm">>, "", 1),
                          SourceFile(F3, <<"b.lm">>, "", 1)>>, Hir1, TRUE) >>
\* two packages, each listing an a.lm; b.lm is gone; the traversal of the
\* second package's HIR fails
Graph2 == << Package(1, <<SourceFile(F1, <<"a.lm">>, "", 1)>>, Hir2, TRUE),
             Package(2, <<SourceFile(F2, <<"a.lm">>, "", 2)>>, Hir3, FALSE) >>
\* two packages; the traversal of the first one's HIR fails
Graph3 == << Package(2, <<SourceFile(F2, <<"a.lm">>, "", 2)>>, Hir3, FALSE),
             Package(1, <<SourceFile(F1, <<"a.lm">>, "", 1),
                          SourceFile(F3, <<"b.lm">>, "", 1)>>, Hir1, TRUE) >>
Graphs == {Graph1, Graph2}

\* error_snippet labels and diagnostics
Label(n) == [source |-> "named", name |-> n]
NoLabels == <<[source |-> "absent"]>>
Diag(i, ls) == [id |-> i, labels |-> ls]

\* labels that do not lower: one without a source, one whose source has no name
Sourceless == [source |-> "none"]
Unnamed == [source |-> "unnamed"]

DiagA1 == Diag("A1", <<Label(<<"a.lm">>)>>)
\* a second diagnostic for a.lm; its first label does not lower
DiagA2 == Diag("A2", <<Unnamed, Label(<<"a.lm">>)>>)
DiagB == Diag("B", <<Label(<<"b.lm">>), Label(<<"a.lm">>)>>)
DiagN == Diag("N", NoLabels)
\* labels, none of which lowers
DiagU == Diag("U", <<Sourceless, Unnamed>>)
DiagPool == {DiagA1, DiagA2, DiagB, DiagN, DiagU}

Perms(S) == {p \in [1..Cardinality(S) -> S] : Range(p) = S}

----------------------------------------------------------------------------
(* Vfs (state.rs) *)

\* Path::ends_with, by components
EndsWith(path, suffix) ==
    /\ Len(suffix) <= Len(path)
    /\ SubSeq(path, Len(path) - Len(suffix) + 1, Len(path)) = suffix

\* Path::parent on a path with at least one component
Parent(path) == SubSeq(path, 1, Len(path) - 1)

RECURSIVE FirstMatch(_, _)
FirstMatch(srcs, uri) ==
    IF srcs = <<>> THEN NoSource
    ELSE IF EndsWith(uri.path, Head(srcs).name) THEN Head(srcs)
         ELSE FirstMatch(Tail(srcs), uri)

\* State::source_of_uri: the first source, package by package, whose name is
\* a suffix of the URI's path
RECURSIVE source_of_uri(_, _)
source_of_uri(g, uri) ==
    IF g = <<>> THEN NoSource
    ELSE LET m == FirstMatch(Head(g).sources, uri)
         IN IF m # NoSource THEN m ELSE source_of_uri(Tail(g), uri)

HasDocument(sf, uri) == \E i \in 1..Len(sf) : sf[i].uri = uri

DocIndex(sf, uri) == CHOOSE i \in 1..Len(sf) : sf[i].uri = uri

\* Vfs::get_document
get_document(sf, uri) == IF HasDocument(sf, uri) THEN sf[DocIndex(sf, uri)] ELSE NoDocument

\* an insert that always pushes a new entry
add_document_Appends(sf, uri, file) == Append(sf, [uri |-> uri, file |-> file])

\* Vfs::add_document: IndexMap::insert keyed by the URI's hash: a present key
\* keeps its place and takes the new value, a new key goes last
add_document(sf, uri, file) ==
    IF HasDocument(sf, uri)
    THEN [sf EXCEPT ![DocIndex(sf, uri)] = [uri |-> uri, file |-> file]]
    ELSE Append(sf, [uri |-> uri, file |-> file])

\* a remove that removes nothing
remove_document_Keeps(sf, uri) == sf

\* Vfs::remove_document: IndexMap::swap_remove: the last entry takes the
\* removed entry's place
remove_document(sf, uri) ==
    IF ~HasDocument(sf, uri) THEN sf
    ELSE LET i == DocIndex(sf, uri)
         IN IF i = Len(sf) THEN SubSeq(sf, 1, Len(sf) - 1)
            ELSE SubSeq([sf EXCEPT ![i] = sf[Len(sf)]], 1, Len(sf) - 1)

\* a change that takes the document out and adds it again at the end
change_document_Reinserts(sf, uri, content) ==
    IF ~HasDocument(sf, uri) THEN sf
    ELSE LET document == get_document(sf, uri)
         IN Append(RemoveAt(sf, DocIndex(sf, uri)),
                   [uri |-> uri,
                    file |-> SourceFile(document.file.id, document.file.name, content,
                                        document.file.package)])

\* a change that keeps the document's old content
change_document_KeepsContent(sf, uri, content) == sf

\* Vfs::change_document: nothing for a URI without a document
change_document(sf, uri, content) ==
    IF ~HasDocument(sf, uri) THEN sf
    ELSE LET document == get_document(sf, uri)
         IN add_document(sf, uri,
                SourceFile(document.file.id, document.file.name, content,
                           document.file.package))

\* Path::starts_with, by components
StartsWith(path, prefix) ==
    /\ Len(prefix) <= Len(path)
    /\ SubSeq(path, 1, Len(prefix)) = prefix

\* FileName::Real(path): a path relative to the workspace root, or absolute
FileName(relative, p) == [relative |-> relative, path |-> p]

\* the key build_source_overrides gives a document: the URI's path, with the
\* workspace root stripped when the path starts with it
relative_path(root, uri) ==
    IF StartsWith(uri.path, root.path)
    THEN FileName(TRUE, SubSeq(uri.path, Len(root.path) + 1, Len(uri.path)))
    ELSE FileName(FALSE, uri.path)

HasKey(m, k) == \E i \in 1..Len(m) : m[i].key = k

\* IndexMap::insert: a present key keeps its place and takes the new value
map_insert(m, k, v) ==
    IF HasKey(m, k)
    THEN [i \in 1..Len(m) |-> IF m[i].key = k THEN [key |-> k, value |-> v] ELSE m[i]]
    ELSE Append(m, [key |-> k, value |-> v])

\* Vfs::build_source_overrides: one insert per document, in VFS order
RECURSIVE build_source_overrides(_, _, _)
build_source_overrides(sf, root, source_overrides) ==
    IF sf = <<>> THEN source_overrides
    ELSE build_source_overrides(Tail(sf), root,
            map_insert(source_overrides, relative_path(root, Head(sf).uri),
                       Head(sf).file.content))

----------------------------------------------------------------------------
(* CheckedWorkspace (state.rs) *)

\* SymbolLookup::from_hir: the LocationVisitor's hooks as the traversal
\* reaches them; visit_type and visit_node insert_sorted, the others insert
RECURSIVE from_hir(_, _)
from_hir(hir, syms) ==
    IF hir = <<>> THEN syms
    ELSE from_hir(Tail(hir),
                  IF Head(hir).hook = "type"
                  THEN insert_sorted(syms, Head(hir).entry)
                  ELSE insert(syms, Head(hir).entry))

\* CheckedWorkspace::update_symbol_lookup: the packages whose from_hir
\* fails are skipped
RECURSIVE update_symbol_lookup(_, _)
update_symbol_lookup(g, syms) ==
    IF g = <<>> THEN syms
    ELSE update_symbol_lookup(Tail(g),
            IF Head(g).hir_ok THEN extend(syms, from_hir(Head(g).hir, <<>>))
            ELSE syms)

----------------------------------------------------------------------------
(* Diagnostic router (diagnostics.rs) *)

PublishDiagnostics(file, diags) ==
    [method |-> "textDocument/publishDiagnostics", uri |-> file, diagnostics |-> diags]

\* lower_diagnostic_label: labels without a source (or source name) lower to
\* nothing; a relative name is joined to the workspace root
Lowerable(label) == label.source = "named"

LowerUri(root, label) == Uri(root.path \o label.name, "file")

\* diagnostic.labels() lowered: the URIs of the labels that lower, in order
lowered_labels(root, d) ==
    IF d.labels = NoLabels THEN <<>>
    ELSE LET ok == SelectSeq(d.labels, Lowerable)
         IN [i \in 1..Len(ok) |-> LowerUri(root, ok[i])]

\* a publish that sends a diagnostic without a lowered label to the root
publish_diagnostic_Always(root, d, st) ==
    LET labels == lowered_labels(root, d)
    IN [curr |-> st.curr \cup Range(labels),
        sent |-> Append(st.sent,
                        PublishDiagnostics(IF labels = <<>> THEN Uri(root.path, "file")
                                           ELSE labels[1], <<d.id>>))]

\* a publish that sends one notification to every lowered label's file
publish_diagnostic_PerLabel(root, d, st) ==
    LET labels == lowered_labels(root, d)
    IN [curr |-> st.curr \cup Range(labels),
        sent |-> st.sent \o [i \in 1..Len(labels) |->
                                PublishDiagnostics(labels[i], <<d.id>>)]]

\* State::publish_diagnostic on the pair (curr, sent)
publish_diagnostic(root, d, st) ==
    LET labels == lowered_labels(root, d)
    IN [curr |-> st.curr \cup Range(labels),
        sent |-> IF labels = <<>> THEN st.sent
                 ELSE Append(st.sent, PublishDiagnostics(labels[1], <<d.id>>))]

\* the with_iter loop of drain_dcx_diagnostics
RECURSIVE publish_all(_, _, _)
publish_all(root, ds, st) ==
    IF ds = <<>> THEN st
    ELSE publish_all(root, Tail(ds), publish_diagnostic(root, Head(ds), st))

NonEmptyTargets(ns) == {ns[i].uri : i \in {j \in 1..Len(ns) : ns[j].diagnostics # <<>>}}

HasPublish(ns, f) == \E i \in 1..Len(ns) : ns[i].uri = f

LastPublish(ns, f) ==
    ns[CHOOSE i \in 1..Len(ns) : ns[i].uri = f /\ \A j \in (i + 1)..Len(ns) : ns[j].uri # f]

\* a difference that yields every file of prev
difference_AllOfPrev(prev, curr) == prev

\* error_files.prev.difference(&error_files.curr)
difference(prev, curr) == prev \ curr

\* the tail of drain_dcx_diagnostics: an empty publish for every file of
\* prev \ curr, in the order the HashSet difference yields them
clear_publications(order) == [i \in 1..Len(order) |-> PublishDiagnostics(order[i], <<>>)]

\* a drain that sends the empty publications first
drain_dcx_diagnostics_ClearsFirst(published, cleared) == cleared \o published

\* drain_dcx_diagnostics: the notifications of the with_iter loop, then,
\* after dcx.clear(), the empty ones
drain_dcx_diagnostics(published, cleared) == published \o cleared

NewLastPub(ns) == [f \in Uris |-> IF HasPublish(ns, f)
                                  THEN LastPublish(ns, f).diagnostics
                                  ELSE lastPub[f]]

----------------------------------------------------------------------------
(* State::compile_workspace (state.rs), in the steps the driver splits it in *)

\* compile_workspace up to the call of check(): curr moves into prev, curr
\* starts empty; `cont` is where the caller goes on once it returns
\* a swap without the take before it
take_and_swap_NoTake(prev, curr) == [prev |-> curr, curr |-> prev]

\* mem::take(&mut error_files_prev), its value dropped, then
\* mem::swap(&mut error_files_prev, &mut error_files_curr)
take_and_swap(prev, curr) ==
    LET taken == {}
    IN [prev |-> curr, curr |-> taken]

\* the count a handler starts from when it is taken from the channel
HandlerBase == IF pc = "listen" THEN 0 ELSE compiles

InHandler(at) == at \in {"check", "discover", "reopen"}

begin_compile(cont) ==
    /\ compiles' = IF HandlerBase < MaxCompiles THEN HandlerBase + 1 ELSE MaxCompiles
    /\ error_files_prev' = take_and_swap(error_files_prev, error_files_curr).prev
    /\ error_files_curr' = take_and_swap(error_files_prev, error_files_curr).curr
    /\ pc' = "check"
    /\ ret' = cont
    /\ emitted' = <<>>
    /\ sent' = <<>>
    /\ hadDiag' = NonEmptyTargets(sent)
    /\ lastCompile' = "running"
    /\ UNCHANGED <<graph, symbols, dcx, lastPub, lastOk>>

\* a step that does not enter compile_workspace
NoCompile ==
    /\ lastCompile' = "none"
    /\ compiles' = IF (dequeued \/ pc = "listen") /\ ~InHandler(pc') THEN 0
                   ELSE HandlerBase
    /\ UNCHANGED <<graph, symbols, error_files_prev, error_files_curr, dcx,
                   ret, emitted, sent, hadDiag, lastPub, lastOk>>

\* where the caller of compile_workspace goes on: initialize and the
\* handlers return to the receive loop, the parent walk of open_document
\* looks at the packages found
AfterCompile(g) ==
    IF ret = "discover"
    THEN IF g # EmptyGraph THEN "reopen" ELSE "discover"
    ELSE "listen"

\* the driver, while it checks, emits a diagnostic into the DiagCtx (it needs
\* an Arcfile at the root to get that far)
DriverEmits(d) ==
    /\ pc = "check"
    /\ workspace_root.path \in ArcfileDirs
    /\ Len(dcx) < MaxDcx
    /\ dcx' = Append(dcx, d)
    /\ emitted' = Append(emitted, d)
    /\ UNCHANGED <<workspace_root, source_files, graph, symbols, error_files_prev,
                   error_files_curr, pc, ret, iter_path, params, sent, lastCompile,
                   hadDiag, lastPub, lastNote, lastApplied, lastOk>>
    /\ UNCHANGED <<ivars, nvars, qvars, dequeued, last_message, compiles>>

\* the Err arm that also forgets the graph
CheckedOnErr_Reset == [graph |-> EmptyGraph, symbols |-> symbols]

\* the Err arm of compile_workspace leaves checked as it is
CheckedOnErr == [graph |-> graph, symbols |-> symbols]

\* an Ok arm that keeps the old index when a package's index fails to build
CheckedOnOk_KeepsIndexOnFailure(packages) ==
    [graph |-> packages,
     symbols |-> IF \E i \in 1..Len(packages) : ~packages[i].hir_ok THEN symbols
                 ELSE update_symbol_lookup(packages, <<>>)]

\* the Ok arm: update_symbol_lookup replaces graph and index together
CheckedOnOk(packages) ==
    [graph |-> packages, symbols |-> update_symbol_lookup(packages, <<>>)]

\* check() returns Ok(packages): update_symbol_lookup, and nothing else
CheckReturnsOk(packages) ==
    /\ pc = "check"
    /\ workspace_root.path \in ArcfileDirs
    /\ graph' = CheckedOnOk(packages).graph
    /\ symbols' = CheckedOnOk(packages).symbols
    /\ pc' = AfterCompile(graph')
    /\ lastCompile' = "ok"
    /\ lastOk' = packages
    /\ UNCHANGED <<workspace_root, source_files, error_files_prev, error_files_curr,
                   dcx, ret, iter_path, params, emitted, sent, hadDiag, lastPub,
                   lastNote, lastApplied>>
    /\ compiles' = IF dequeued /\ ~InHandler(pc') THEN 0 ELSE compiles
    /\ UNCHANGED <<ivars, nvars, qvars, dequeued, last_message>>

\* check() returns Err(err): the error is emitted and the DiagCtx drained.
\* Without an Arcfile at the root the driver fails with an error that has
\* no labels.
CheckReturnsErr(err) ==
    /\ pc = "check"
    /\ workspace_root.path \notin ArcfileDirs => err = DiagN
    /\ LET drained == publish_all(workspace_root, Append(dcx, err),
                                  [curr |-> error_files_curr, sent |-> sent])
       IN /\ error_files_curr' = drained.curr
          /\ \E order \in Perms(difference(error_files_prev, drained.curr)) :
                sent' = drain_dcx_diagnostics(drained.sent, clear_publications(order))
    /\ dcx' = <<>>
    /\ graph' = CheckedOnErr.graph
    /\ symbols' = CheckedOnErr.symbols
    /\ pc' = AfterCompile(graph')
    /\ emitted' = Append(emitted, err)
    /\ lastCompile' = "err"
    /\ lastPub' = NewLastPub(sent')
    /\ UNCHANGED <<workspace_root, source_files, error_files_prev, ret, iter_path,
                   params, hadDiag, lastNote, lastApplied, lastOk>>
    /\ compiles' = IF dequeued /\ ~InHandler(pc') THEN 0 ELSE compiles
    /\ UNCHANGED <<ivars, nvars, qvars, dequeued, last_message>>

----------------------------------------------------------------------------
(* initialize (lib.rs) and the notification handlers (handlers/notification.rs) *)

\* ensure_trailing_slash
ensure_trailing_slash(folder) == [path |-> folder, slash |-> TRUE]

\* what a document notification meets when it is taken from the channel
Snapshot ==
    [source_files |-> source_files, root |-> workspace_root, graph |-> graph,
     symbols |-> symbols, result |-> lastCompile, packages |-> lastOk,
     emitted |-> emitted, sent |-> sent]

NoNote == [kind |-> "none"]

NoRequest == [id |-> 0, method |-> "none"]

\* a document notification is taken from the channel: the history keeps it
\* with the state it met, and of the one before it what build_source_overrides
\* returned when that one arrived; the last message is no request any more
Arrives(kind, uri, text) ==
    /\ UNCHANGED <<recording, workspace_folders>>
    /\ request' = NoRequest
    /\ outbox' = <<>>
    /\ dequeued' = TRUE
    /\ last_message' = "document"
    /\ IF recording
       THEN /\ note' = [kind |-> kind, uri |-> uri, text |-> text, pre |-> Snapshot]
            /\ prevNote' =
                  IF note = NoNote THEN NoNote
                  ELSE [kind |-> note.kind, uri |-> note.uri, text |-> note.text,
                        held |-> HasDocument(note.pre.source_files, note.uri),
                        overrides |-> build_source_overrides(note.pre.source_files,
                                                             note.pre.root, <<>>)]
       ELSE UNCHANGED <<note, prevNote>>

\* the server process when start_server calls initialize: the fields as
\* State::new builds them, the workspace root not yet chosen
ServerInit ==
    /\ workspace_root = NoRoot
    /\ workspace_folders = NoFolders
    /\ note = NoNote
    /\ prevNote = NoNote
    /\ request = NoRequest
    /\ outbox = <<>>
    /\ dequeued = FALSE
    /\ last_message = "none"
    /\ compiles = 0
    /\ source_files = <<>>
    /\ graph = EmptyGraph
    /\ symbols = <<>>
    /\ error_files_prev = {}
    /\ error_files_curr = {}
    /\ dcx = <<>>
    /\ pc = "start"
    /\ ret = "listen"
    /\ iter_path = <<>>
    /\ params = NoParams
    /\ emitted = <<>>
    /\ sent = <<>>
    /\ lastCompile = "none"
    /\ hadDiag = {}
    /\ lastPub = [f \in Uris |-> "none"]
    /\ lastNote = [u \in Uris |-> "absent"]
    /\ lastApplied = [u \in Uris |-> "absent"]
    /\ lastOk = EmptyGraph

\* initialize up to State::new: the first workspace folder becomes the root;
\* without the field initialize returns an error, and Vec::remove(0) on an
\* empty list panics
Initialize(folders) ==
    /\ pc = "start"
    /\ workspace_folders' = folders
    /\ IF ~folders.present
       THEN pc' = "failed" /\ UNCHANGED workspace_root
       ELSE IF folders.list = <<>>
            THEN pc' = "panicked" /\ UNCHANGED workspace_root
            ELSE /\ workspace_root' = ensure_trailing_slash(folders.list[1])
                 /\ pc' = "init"
    /\ NoCompile
    /\ UNCHANGED <<source_files, iter_path, params, lastNote, lastApplied>>
    /\ UNCHANGED <<ivars, nvars, request, outbox, dequeued, last_message>>

\* initialize: compile_workspace, then listen
InitialCompile ==
    /\ pc = "init"
    /\ begin_compile("listen")
    /\ UNCHANGED <<workspace_root, source_files, iter_path, params, lastNote, lastApplied>>
    /\ UNCHANGED <<ivars, nvars, qvars, dequeued, last_message>>

\* the body of open_document(state, params)
open_document(uri, text) ==
    LET source_file == source_of_uri(graph, uri)
    IN IF source_file # NoSource
       THEN /\ source_files' = add_document(source_files, uri,
                                  SourceFile(source_file.id, source_file.name, text,
                                             source_file.package))
            /\ begin_compile("listen")
            /\ lastApplied' = [lastApplied EXCEPT ![uri] = text]
            /\ iter_path' = <<>>
            /\ params' = NoParams
            /\ UNCHANGED workspace_root
       ELSE IF graph = EmptyGraph
            THEN \* the parent walk starts at the document's path
                 /\ pc' = "discover"
                 /\ iter_path' = uri.path
                 /\ params' = [uri |-> uri, text |-> text]
                 /\ NoCompile
                 /\ UNCHANGED <<workspace_root, source_files, lastApplied>>
            ELSE \* "could not find any matching package"
                 /\ pc' = "listen"
                 /\ iter_path' = <<>>
                 /\ params' = NoParams
                 /\ NoCompile
                 /\ UNCHANGED <<workspace_root, source_files, lastApplied>>

\* didOpen
OpenDocument(uri, text) ==
    /\ pc = "listen"
    /\ Arrives("open", uri, text)
    /\ open_document(uri, text)
    /\ lastNote' = [lastNote EXCEPT ![uri] = text]
    /\ UNCHANGED ivars

\* one turn of `while let Some(directory) = iter_path.parent()`
DiscoverStep ==
    /\ pc = "discover"
    /\ IF iter_path = <<>>
       THEN \* no parent left: "could not find any matching package"
            /\ pc' = "listen"
            /\ params' = NoParams
            /\ NoCompile
            /\ UNCHANGED <<workspace_root, iter_path>>
       ELSE LET directory == Parent(iter_path)
            IN IF directory \notin ArcfileDirs
               THEN /\ iter_path' = directory
                    /\ UNCHANGED <<workspace_root, pc, params>>
                    /\ NoCompile
               ELSE /\ workspace_root' = [path |-> directory, slash |-> FALSE]
                    /\ begin_compile("discover")
                    /\ UNCHANGED <<iter_path, params>>
    /\ UNCHANGED <<source_files, lastNote, lastApplied>>
    /\ UNCHANGED <<ivars, nvars, qvars, dequeued, last_message>>

\* `return open_document(state, params)` once packages were found
Reopen ==
    /\ pc = "reopen"
    /\ open_document(params.uri, params.text)
    /\ UNCHANGED lastNote
    /\ UNCHANGED <<ivars, nvars, qvars, dequeued, last_message>>

\* didClose
CloseDocument(uri) ==
    /\ pc = "listen"
    /\ Arrives("close", uri, "")
    /\ source_files' = remove_document(source_files, uri)
    /\ begin_compile("listen")
    /\ lastNote' = [lastNote EXCEPT ![uri] = "absent"]
    /\ lastApplied' = [lastApplied EXCEPT ![uri] = "absent"]
    /\ UNCHANGED <<workspace_root, iter_path, params>>
    /\ UNCHANGED ivars

\* didSave, with the text the client includes
SaveDocument(uri, text) ==
    /\ pc = "listen"
    /\ Arrives("save", uri, text)
    /\ source_files' = change_document(source_files, uri, text)
    /\ begin_compile("listen")
    /\ lastNote' = [lastNote EXCEPT ![uri] = text]
    /\ lastApplied' = IF HasDocument(source_files, uri)
                      THEN [lastApplied EXCEPT ![uri] = text] ELSE lastApplied
    /\ UNCHANGED <<workspace_root, iter_path, params>>
    /\ UNCHANGED ivars

\* didChange, with the text of the first content change
ChangeDocument(uri, text) ==
    /\ pc = "listen"
    /\ Arrives("change", uri, text)
    /\ source_files' = change_document(source_files, uri, text)
    /\ begin_compile("listen")
    /\ lastNote' = [lastNote EXCEPT ![uri] = text]
    /\ lastApplied' = IF HasDocument(source_files, uri)
                      THEN [lastApplied EXCEPT ![uri] = text] ELSE lastApplied
    /\ UNCHANGED <<workspace_root, iter_path, params>>
    /\ UNCHANGED ivars

----------------------------------------------------------------------------
(* Requests (listen.rs, handlers/request.rs, symbols/hover.rs) *)

RequestIds == {1, 2}

\* Response::new_ok and Response::new_err
ResponseOk(id, value) == [id |-> id, ok |-> TRUE, code |-> "none", value |-> value]
ResponseErr(id, code, message) == [id |-> id, ok |-> FALSE, code |-> code, value |-> message]

NoLocation == [file |-> "none"]

\* State::location_of for a position on line 0: the byte range
\* [column, column + 1) of the document's file; None without a document
location_of(sf, uri, column) ==
    IF ~HasDocument(sf, uri) THEN NoLocation
    ELSE [file |-> get_document(sf, uri).file.id, start |-> column, end |-> column + 1]

\* what the type context answers when content is rendered for an entry: a
\* string (possibly empty) or an error; rendering a Type entry returns no error
Renderings == {[ok |-> TRUE, content |-> "lm markdown"], [ok |-> TRUE, content |-> ""],
               [ok |-> FALSE, content |-> "message"]}

\* hover_content_of: the empty string without an enclosing entry, else what
\* rendering the entry gives
hover_content_of(syms, location, rendering) ==
    IF lookup_position(syms, location) = NoEntry
    THEN [ok |-> TRUE, content |-> ""]
    ELSE rendering

Hover(content) == [kind |-> "markdown", value |-> content]

\* an on_hover that answers a missing document with empty content
on_hover_MissingIsEmpty(id, uri, column, rendering) ==
    LET location == location_of(source_files, uri, column)
        content == IF location = NoLocation THEN [ok |-> TRUE, content |-> ""]
                   ELSE hover_content_of(symbols, location, rendering)
    IN IF ~content.ok
       THEN ResponseErr(id, "RequestFailed", content.content)
       ELSE ResponseOk(id, Hover(content.content))

\* on_hover: the Response it sends
on_hover(id, uri, column, rendering) ==
    LET location == location_of(source_files, uri, column)
    IN IF location = NoLocation
       THEN ResponseErr(id, "InvalidParams", "document not available")
       ELSE LET content == hover_content_of(symbols, location, rendering)
            IN IF ~content.ok
               THEN ResponseErr(id, "RequestFailed", content.content)
               ELSE ResponseOk(id, Hover(content.content))

\* what a request leaves alone: everything but the outbound channel (and,
\* for shutdown, the loop)
RequestFrame ==
    /\ NoCompile
    /\ UNCHANGED <<workspace_root, source_files, iter_path, params, lastNote,
                   lastApplied, workspace_folders>>
    /\ dequeued' = TRUE
    /\ last_message' = "request"
    /\ UNCHANGED <<ivars, nvars>>

\* a shutdown that is answered without leaving the loop
ShutdownRequest_KeepsListening(id) ==
    /\ pc = "listen"
    /\ request' = [id |-> id, method |-> "shutdown"]
    /\ outbox' = <<ResponseOk(id, "null")>>
    /\ pc' = "listen"
    /\ RequestFrame

\* listen: a shutdown request is answered with success and the loop left
ShutdownRequest(id) ==
    /\ pc = "listen"
    /\ request' = [id |-> id, method |-> "shutdown"]
    /\ outbox' = <<ResponseOk(id, "null")>>
    /\ pc' = "stopped"
    /\ RequestFrame

\* a hover that is answered while a compile is in progress
HoverRequest_DuringCompile(id, uri, column, rendering) ==
    /\ pc \in {"listen", "check"}
    /\ request' = [id |-> id, method |-> "textDocument/hover", decoded |-> TRUE,
                   uri |-> uri, column |-> column, rendering |-> rendering]
    /\ outbox' = <<on_hover(id, uri, column, rendering)>>
    /\ UNCHANGED <<pc, workspace_root, source_files, iter_path, params, lastNote,
                   lastApplied, workspace_folders, graph, symbols, error_files_prev,
                   error_files_curr, dcx, ret, emitted, sent, hadDiag, lastPub, lastOk,
                   lastCompile, compiles>>
    /\ dequeued' = TRUE
    /\ last_message' = "request"
    /\ UNCHANGED <<ivars, nvars>>

\* a hover that calls compile_workspace once it has answered
HoverRequest_Compiles(id, uri, column, rendering) ==
    /\ pc = "listen"
    /\ request' = [id |-> id, method |-> "textDocument/hover", decoded |-> TRUE,
                   uri |-> uri, column |-> column, rendering |-> rendering]
    /\ outbox' = <<on_hover(id, uri, column, rendering)>>
    /\ begin_compile("listen")
    /\ UNCHANGED <<workspace_root, source_files, iter_path, params, lastNote,
                   lastApplied, workspace_folders>>
    /\ dequeued' = TRUE
    /\ last_message' = "request"
    /\ UNCHANGED <<ivars, nvars>>

\* handle_request, textDocument/hover with params that decode
HoverRequest(id, uri, column, rendering) ==
    /\ pc = "listen"
    /\ LET sym == lookup_position(symbols, location_of(source_files, uri, column))
       IN (HasDocument(source_files, uri) /\ sym # NoEntry /\ sym.kind = "Type")
              => rendering.ok
    /\ request' = [id |-> id, method |-> "textDocument/hover", decoded |-> TRUE,
                   uri |-> uri, column |-> column, rendering |-> rendering]
    /\ outbox' = <<on_hover(id, uri, column, rendering)>>
    /\ UNCHANGED pc
    /\ RequestFrame

\* handle_request, textDocument/hover with params that do not decode: the
\* error is returned to listen, which logs it
HoverRequestMalformed(id) ==
    /\ pc = "listen"
    /\ request' = [id |-> id, method |-> "textDocument/hover", decoded |-> FALSE]
    /\ outbox' = <<>>
    /\ UNCHANGED pc
    /\ RequestFrame

OtherMethods == {"textDocument/definition"}

\* handle_request, any other method: the `_ => {}` arm
OtherRequest(id, method) ==
    /\ pc = "listen"
    /\ request' = [id |-> id, method |-> method]
    /\ outbox' = <<>>
    /\ UNCHANGED pc
    /\ RequestFrame

OtherNotifications == {"$/setTrace"}

\* an unknown notification that is taken for a reason to compile
OtherNotification_Compiles(method) ==
    /\ pc = "listen"
    /\ begin_compile("listen")
    /\ request' = NoRequest
    /\ outbox' = <<>>
    /\ dequeued' = TRUE
    /\ last_message' = "notification"
    /\ UNCHANGED <<workspace_root, source_files, iter_path, params, lastNote,
                   lastApplied, workspace_folders>>
    /\ UNCHANGED <<ivars, nvars>>

\* handle_notification, any other method: the `_ => {}` arm
OtherNotification(method) ==
    /\ pc = "listen"
    /\ UNCHANGED pc
    /\ NoCompile
    /\ request' = NoRequest
    /\ outbox' = <<>>
    /\ dequeued' = TRUE
    /\ last_message' = "notification"
    /\ UNCHANGED <<workspace_root, source_files, iter_path, params, lastNote,
                   lastApplied, workspace_folders>>
    /\ UNCHANGED <<ivars, nvars>>

\* listen, Message::Response: logged, nothing else
StrayResponse(id) ==
    /\ pc = "listen"
    /\ UNCHANGED pc
    /\ NoCompile
    /\ request' = NoRequest
    /\ outbox' = <<>>
    /\ dequeued' = TRUE
    /\ last_message' = "response"
    /\ UNCHANGED <<workspace_root, source_files, iter_path, params, lastNote,
                   lastApplied, workspace_folders>>
    /\ UNCHANGED <<ivars, nvars>>

\* change_document on a didChange without content changes:
\* content_changes.first().unwrap() panics
ChangeDocumentNoChanges(uri) ==
    /\ pc = "listen"
    /\ pc' = "panicked"
    /\ NoCompile
    /\ UNCHANGED <<workspace_root, source_files, iter_path, params, lastNote,
                   lastApplied>>
    /\ dequeued' = TRUE
    /\ last_message' = "document"
    /\ UNCHANGED <<ivars, nvars, qvars>>

\* save_document on a didSave without text: params.text.unwrap() panics
SaveDocumentNoText(uri) ==
    /\ pc = "listen"
    /\ pc' = "panicked"
    /\ NoCompile
    /\ UNCHANGED <<workspace_root, source_files, iter_path, params, lastNote,
                   lastApplied>>
    /\ dequeued' = TRUE
    /\ last_message' = "document"
    /\ UNCHANGED <<ivars, nvars, qvars>>

----------------------------------------------------------------------------
(* The server of main.rs (backend.rs, backend/diagnostics.rs).  Its sources *)
(* are a HashMap from URI to text: the order of source_files means nothing  *)
(* here.                                                                    *)

\* Backend::initialize: the first workspace folder, if there is one, becomes
\* the root; main.rs then calls listen
BackendInitialize(folders) ==
    /\ pc = "start"
    /\ workspace_folders' = folders
    /\ workspace_root' = IF folders.present /\ folders.list # <<>>
                         THEN ensure_trailing_slash(folders.list[1])
                         ELSE NoRoot
    /\ pc' = "listen"
    /\ NoCompile
    /\ UNCHANGED <<source_files, iter_path, params, lastNote, lastApplied>>
    /\ UNCHANGED <<ivars, nvars, request, outbox, dequeued, last_message>>

\* HashMap::insert and HashMap::remove on Backend.sources
sources_insert(sf, uri, text) ==
    IF HasDocument(sf, uri)
    THEN [sf EXCEPT ![DocIndex(sf, uri)] = [uri |-> uri, file |-> [content |-> text]]]
    ELSE Append(sf, [uri |-> uri, file |-> [content |-> text]])

sources_remove(sf, uri) ==
    IF HasDocument(sf, uri) THEN RemoveAt(sf, DocIndex(sf, uri)) ELSE sf

\* Backend::check_package_root up to the driver: without a root it panics,
\* else curr moves into prev and curr starts empty
check_package_root ==
    IF workspace_root = NoRoot
    THEN pc' = "panicked" /\ NoCompile
    ELSE begin_compile("listen")

\* the didOpen, didSave and didChange arms of Backend::handle_notification
\* (kind is "open", "save" or "change")
BackendInsert(kind, uri, text) ==
    /\ pc = "listen"
    /\ Arrives(kind, uri, text)
    /\ source_files' = sources_insert(source_files, uri, text)
    /\ check_package_root
    /\ lastNote' = [lastNote EXCEPT ![uri] = text]
    /\ lastApplied' = [lastApplied EXCEPT ![uri] = text]
    /\ UNCHANGED <<workspace_root, iter_path, params>>
    /\ UNCHANGED ivars

\* the didClose arm
BackendCloseDocument(uri) ==
    /\ pc = "listen"
    /\ Arrives("close", uri, "")
    /\ source_files' = sources_remove(source_files, uri)
    /\ check_package_root
    /\ lastNote' = [lastNote EXCEPT ![uri] = "absent"]
    /\ lastApplied' = [lastApplied EXCEPT ![uri] = "absent"]
    /\ UNCHANGED <<workspace_root, iter_path, params>>
    /\ UNCHANGED ivars

\* check_package_root from the driver's return on: checked_graph is the
\* packages, or None with the error emitted, and the DiagCtx is drained
\* whatever the driver returned (errs is <<>> for Ok, <<err>> for Err)
BackendCheckReturns(packages, errs) ==
    /\ pc = "check"
    /\ workspace_root.path \notin ArcfileDirs => errs = <<DiagN>>
    /\ LET drained == publish_all(workspace_root, dcx \o errs,
                                  [curr |-> error_files_curr, sent |-> sent])
       IN /\ error_files_curr' = drained.curr
          /\ \E order \in Perms(difference(error_files_prev, drained.curr)) :
                sent' = drain_dcx_diagnostics(drained.sent, clear_publications(order))
    /\ dcx' = <<>>
    /\ graph' = IF errs = <<>> THEN packages ELSE EmptyGraph
    /\ pc' = "listen"
    /\ emitted' = emitted \o errs
    /\ lastCompile' = IF errs = <<>> THEN "ok" ELSE "err"
    /\ lastPub' = NewLastPub(sent')
    /\ lastOk' = IF errs = <<>> THEN packages ELSE lastOk
    /\ compiles' = IF dequeued THEN 0 ELSE compiles
    /\ UNCHANGED <<workspace_root, source_files, symbols, error_files_prev, ret,
                   iter_path, params, hadDiag, lastNote, lastApplied>>
    /\ UNCHANGED <<ivars, nvars, qvars, dequeued, last_message>>

----------------------------------------------------------------------------
(* SpecIndex: the visitor hooks, from_hir, extend and lookup_position *)

\* the locations the compiler's HIR hands to the visitor
EntryPool ==
    {SymbolEntry(F1, s, e, k) : s \in 0..MaxPos, e \in 0..MaxPos, k \in SymbolKinds}
    \cup {SymbolEntry(F2, 0, MaxPos, "Type")}

Locations == {e \in EntryPool : e.start < e.end}

Queries == {[file |-> f, start |-> s, end |-> s + 1] : f \in {F1, F2}, s \in 0..MaxPos}

HasRoom == Len(vsyms) + Len(bsyms) < MaxEntries

IndexInit ==
    /\ vsyms = <<>>
    /\ bsyms = <<>>
    /\ produced = {}
    /\ phase = "build"
    /\ query = NoEntry
    /\ hit = NoEntry

\* LocationVisitor::visit_type (and the visit_node arms): insert_sorted
VisitType(e) ==
    /\ phase = "build" /\ HasRoom /\ e.kind = "Type"
    /\ vsyms' = insert_sorted(vsyms, e)
    /\ produced' = produced \cup {e}
    /\ UNCHANGED <<svars, bsyms, phase, query, hit, lvars, tvars>>

\* LocationVisitor::visit_expr (call arms): insert
VisitExpr(e) ==
    /\ phase = "build" /\ HasRoom /\ e.kind = "Call"
    /\ vsyms' = insert(vsyms, e)
    /\ produced' = produced \cup {e}
    /\ UNCHANGED <<svars, bsyms, phase, query, hit, lvars, tvars>>

\* LocationVisitor::visit_path (a Type segment): insert
VisitPath(e) ==
    /\ phase = "build" /\ HasRoom /\ e.kind = "Type"
    /\ vsyms' = insert(vsyms, e)
    /\ produced' = produced \cup {e}
    /\ UNCHANGED <<svars, bsyms, phase, query, hit, lvars, tvars>>

\* from_hir returns the visitor's symbols and update_symbol_lookup extends
\* its local index with them
FromHirReturn ==
    /\ phase = "build" /\ vsyms # <<>>
    /\ bsyms' = extend(bsyms, vsyms)
    /\ vsyms' = <<>>
    /\ UNCHANGED <<svars, produced, phase, query, hit, lvars, tvars>>

\* lookup_position on the finished index
LookupPosition(location) ==
    /\ phase = "build" /\ vsyms = <<>>
    /\ phase' = "queried"
    /\ query' = location
    /\ hit' = lookup_position(bsyms, location)
    /\ UNCHANGED <<svars, vsyms, bsyms, produced, lvars, tvars>>

----------------------------------------------------------------------------
(* SpecTraverse: symbols/visitor.rs traverse as a function of the HIR *)

\* what a hook or an id resolution returns, and the visitor's state: the
\* symbols, the calls made so far and the result of the last one
Ok == [kind |-> "ok", at |-> 0]
Err(k, n) == [kind |-> k, at |-> n]
Failed(t) == t.err # Ok

\* a visitor: LocationVisitor's symbols, and a hook that returns Err on the
\* visitor's fail_at-th call (never, for 0: LocationVisitor itself)
Visitor(n) == [symbols |-> <<>>, events |-> <<>>, hooks |-> 0, err |-> Ok, fail_at |-> n]

\* a call of a Visitor hook
Hook(t, h) ==
    LET k == t.hooks + 1
    IN [t EXCEPT !.events = Append(@, [call |-> h, ok |-> k # t.fail_at]),
                 !.hooks = k,
                 !.err = IF k = t.fail_at THEN Err("hook", k) ELSE Ok]

\* Map::expect_statement / Map::expect_expression: Err for an id the map
\* does not hold
Expect(t, map, id, what) ==
    [t EXCEPT !.events = Append(@, [call |-> what, ok |-> id \in DOMAIN map]),
              !.err = IF id \in DOMAIN map THEN Ok ELSE Err(what, id)]

Span(s, e) == [start |-> s, end |-> e]
TypeSegment(n, loc, args) ==
    [kind |-> "Type", name |-> n, location |-> loc, type_arguments |-> args]
NamespaceSegment(n, loc) ==
    [kind |-> "Namespace", name |-> n, location |-> loc, type_arguments |-> <<>>]
HirPath(root, name) == [root |-> root, name |-> name, location |-> name.location]
HirType(path, loc) == [name |-> path, location |-> loc]
NoPath == [root |-> <<>>, name |-> <<>>, location |-> Span(0, 0)]

\* SymbolKind::Type { name }, Callable { reference }, VariableReference { id }
KindType(path) == [tag |-> "Type", name |-> path, id |-> 0]
KindCallable(id) == [tag |-> "Callable", name |-> NoPath, id |-> id]
KindVariable(id) == [tag |-> "Variable", name |-> NoPath, id |-> id]

LocatedEntry(loc, kind) == SymbolEntry(F1, loc.start, loc.end, kind)

\* Path::parent: the path of the root segments, None for a path without any
parent(path) ==
    IF path.root = <<>> THEN <<>>
    ELSE << HirPath(SubSeq(path.root, 1, Len(path.root) - 1),
                    path.root[Len(path.root)]) >>

\* a visit_path that records the path's own name only
RECURSIVE visit_path_loop_LeafOnly(_, _)
visit_path_loop_LeafOnly(current, syms) ==
    IF current = <<>> THEN syms
    ELSE IF current[1].name.kind = "Type"
         THEN insert(syms, LocatedEntry(current[1].name.location, KindType(current[1])))
         ELSE syms

\* the loop of LocationVisitor::visit_path: an entry for every prefix of the
\* path whose last segment is a Type segment, at that segment
RECURSIVE visit_path_loop(_, _)
visit_path_loop(current, syms) ==
    IF current = <<>> THEN syms
    ELSE visit_path_loop(parent(current[1]),
            IF current[1].name.kind = "Type"
            THEN insert(syms, LocatedEntry(current[1].name.location, KindType(current[1])))
            ELSE syms)

\* a hook's effect on the symbols, made when the hook returns Ok
WithSymbols(t, syms) == IF Failed(t) THEN t ELSE [t EXCEPT !.symbols = syms]

visit_path(path, t) ==
    WithSymbols(Hook(t, "visit_path"), visit_path_loop(<<path>>, t.symbols))

visit_type(ty, t) ==
    WithSymbols(Hook(t, "visit_type"),
                insert_sorted(t.symbols, LocatedEntry(ty.location, KindType(ty.name))))

\* visit_node: a Function is recorded at its name, the nodes for statements
\* and expressions are not recorded
visit_node(node, t) ==
    WithSymbols(Hook(t, "visit_node"),
                IF node.kind = "Function"
                THEN insert_sorted(t.symbols,
                        LocatedEntry(node.name.location, KindCallable(node.id)))
                ELSE t.symbols)

\* visit_expr: of the expressions modelled, a Variable is recorded
visit_expr(expr, t) ==
    WithSymbols(Hook(t, "visit_expr"),
                IF expr.kind = "Variable"
                THEN insert(t.symbols, LocatedEntry(expr.location, KindVariable(expr.id)))
                ELSE t.symbols)

\* the default hooks
visit_stmt(stmt, t) == Hook(t, "visit_stmt")
visit_identifier(ident, t) == Hook(t, "visit_identifier")

\* `let t1 = call?; rest(t1)`: the call is made once; its error is returned
\* at once, and what follows is run on its result otherwise
Try(call, rest(_)) ==
    CHOOSE r \in {IF Failed(t1) THEN t1 ELSE rest(t1) : t1 \in {call}} : TRUE

RECURSIVE traverse_type(_, _, _)
RECURSIVE traverse_types(_, _, _)
RECURSIVE traverse_path(_, _, _)
RECURSIVE traverse_path_segment(_, _, _)
RECURSIVE traverse_path_segments(_, _, _)
RECURSIVE traverse_stmt(_, _, _)
RECURSIVE traverse_stmts(_, _, _)
RECURSIVE traverse_expr(_, _, _)
RECURSIVE traverse_exprs(_, _, _)

traverse_type(hir, ty, t) ==
    Try(visit_type(ty, t), LAMBDA t1 : traverse_path(hir, ty.name, t1))

\* for ty in tys { traverse_type(..)?; }
traverse_types(hir, tys, t) ==
    IF tys = <<>> THEN t
    ELSE Try(traverse_type(hir, Head(tys), t),
             LAMBDA t1 : traverse_types(hir, Tail(tys), t1))

traverse_path_segment(hir, segment, t) ==
    Try(visit_identifier(segment.name, t),
        LAMBDA t1 : IF segment.kind = "Namespace" THEN t1
                    ELSE traverse_types(hir, segment.type_arguments, t1))

\* for root in &path.root { traverse_path_segment(..)?; }
traverse_path_segments(hir, segments, t) ==
    IF segments = <<>> THEN t
    ELSE Try(traverse_path_segment(hir, Head(segments), t),
             LAMBDA t1 : traverse_path_segments(hir, Tail(segments), t1))

traverse_path(hir, path, t) ==
    Try(visit_path(path, t),
        LAMBDA t1 : Try(traverse_path_segments(hir, path.root, t1),
                        LAMBDA t2 : traverse_path_segment(hir, path.name, t2)))

\* traverse_expr(hir, visitor, hir.expect_expression(id)?)? for every id
traverse_exprs(hir, ids, t) ==
    IF ids = <<>> THEN t
    ELSE Try(Expect(t, hir.expressions, Head(ids), "expect_expression"),
             LAMBDA t1 : Try(traverse_expr(hir, hir.expressions[Head(ids)], t1),
                             LAMBDA t2 : traverse_exprs(hir, Tail(ids), t2)))

\* the arms for Assignment, Cast, Member, Scope, Literal and Variable
traverse_expr(hir, expr, t) ==
    Try(visit_expr(expr, t),
        LAMBDA t1 :
            CASE expr.kind = "Assignment" ->
                    traverse_exprs(hir, <<expr.target, expr.value>>, t1)
              [] expr.kind = "Cast" ->
                    Try(traverse_exprs(hir, <<expr.source>>, t1),
                        LAMBDA t2 : traverse_type(hir, expr.target, t2))
              [] expr.kind = "Member" -> traverse_exprs(hir, <<expr.callee>>, t1)
              [] expr.kind = "Scope" -> traverse_stmts(hir, expr.body, t1)
              [] OTHER -> t1)

\* traverse_stmt(hir, visitor, hir.expect_statement(id)?)? for every id
traverse_stmts(hir, ids, t) ==
    IF ids = <<>> THEN t
    ELSE Try(Expect(t, hir.statements, Head(ids), "expect_statement"),
             LAMBDA t1 : Try(traverse_stmt(hir, hir.statements[Head(ids)], t1),
                             LAMBDA t2 : traverse_stmts(hir, Tail(ids), t2)))

\* Option fields are sequences of at most one element
traverse_stmt(hir, stmt, t) ==
    Try(visit_stmt(stmt, t),
        LAMBDA t1 :
            CASE stmt.kind = "Variable" ->
                    Try(visit_identifier(stmt.name, t1),
                        LAMBDA t2 : Try(traverse_types(hir, stmt.declared_type, t2),
                                        LAMBDA t3 : traverse_exprs(hir, <<stmt.value>>, t3)))
              [] stmt.kind \in {"Break", "Continue"} -> t1
              [] stmt.kind \in {"Final", "Expression"} ->
                    traverse_exprs(hir, <<stmt.value>>, t1)
              [] stmt.kind = "Return" -> traverse_exprs(hir, stmt.value, t1)
              [] stmt.kind = "InfiniteLoop" -> traverse_stmts(hir, stmt.block, t1)
              [] stmt.kind = "IteratorLoop" ->
                    Try(traverse_exprs(hir, <<stmt.collection>>, t1),
                        LAMBDA t2 : traverse_stmts(hir, stmt.block, t2)))

\* for param in &n.parameters { visit_identifier(..)?; traverse_type(..)?; }
RECURSIVE traverse_parameters(_, _, _)
traverse_parameters(hir, parameters, t) ==
    IF parameters = <<>> THEN t
    ELSE Try(visit_identifier(Head(parameters).name, t),
             LAMBDA t1 : Try(traverse_type(hir, Head(parameters).param_type, t1),
                             LAMBDA t2 : traverse_parameters(hir, Tail(parameters), t2)))

\* the arm for a Function without type parameters, and the empty arm
traverse_node(hir, node, t) ==
    Try(visit_node(node, t),
        LAMBDA t1 :
            IF node.kind # "Function" THEN t1
            ELSE Try(traverse_path(hir, node.name, t1),
                     LAMBDA t2 : Try(traverse_parameters(hir, node.parameters, t2),
                                     LAMBDA t3 : Try(traverse_stmts(hir, node.block, t3),
                                                     LAMBDA t4 : traverse_type(hir, node.return_type, t4)))))

\* the result of a call, taken once
Once(call, rest(_)) == CHOOSE r \in {rest(t1) : t1 \in {call}} : TRUE

\* a loop over the nodes that goes on after a node's traversal failed
RECURSIVE traverse_KeepsGoing(_, _, _)
traverse_KeepsGoing(hir, nodes, t) ==
    IF nodes = <<>> THEN t
    ELSE Once(traverse_node(hir, Head(nodes), t),
              LAMBDA t1 : traverse_KeepsGoing(hir, Tail(nodes), t1))

\* traverse: for node in hir.nodes().values() { traverse_node(..)?; }
RECURSIVE traverse(_, _, _)
traverse(hir, nodes, t) ==
    IF nodes = <<>> THEN t
    ELSE Try(traverse_node(hir, Head(nodes), t),
             LAMBDA t1 : traverse(hir, Tail(nodes), t1))

RECURSIVE SeqsUpTo(_, _)
SeqsUpTo(S, n) ==
    IF n = 0 THEN {<<>>}
    ELSE SeqsUpTo(S, n - 1) \cup {Append(c, b) : c \in {x \in SeqsUpTo(S, n - 1) : Len(x) = n - 1}, b \in S}

\* the HIRs: a function named f with one parameter and the return type
\* `path`, a body of statements 1 and 2, and a node for statement 1
SegmentKinds == {"Type", "Namespace"}
MaxSegments == 3
MaxFailAt == 16

SegmentAt(kind, i, args) ==
    IF kind = "Type" THEN TypeSegment(i, Span(2 * i, 2 * i + 1), args)
    ELSE NamespaceSegment(i, Span(2 * i, 2 * i + 1))

\* the path whose i-th segment has the i-th kind and lies at 2i..2i+1
PathOf(kinds, args) ==
    HirPath([i \in 1..(Len(kinds) - 1) |-> SegmentAt(kinds[i], i, <<>>)],
            SegmentAt(kinds[Len(kinds)], Len(kinds), args))

ArgumentType == HirType(PathOf(<<"Type">>, <<>>), Span(10, 11))

Paths ==
    {PathOf(kinds, args) :
        kinds \in (SeqsUpTo(SegmentKinds, MaxSegments) \ {<<>>}),
        args \in {<<>>, <<ArgumentType>>}}

FunctionName == HirPath(<<>>, NamespaceSegment(0, Span(20, 21)))

Statements ==
    (1 :> [kind |-> "Variable", name |-> "x", declared_type |-> <<ArgumentType>>, value |-> 1]
     @@ 2 :> [kind |-> "InfiniteLoop", block |-> <<3, 4>>]
     @@ 3 :> [kind |-> "Return", value |-> <<2>>]
     @@ 4 :> [kind |-> "Break"])

Expressions ==
    (1 :> [kind |-> "Assignment", target |-> 2, value |-> 3]
     @@ 2 :> [kind |-> "Variable", id |-> 2, location |-> Span(30, 31)]
     @@ 3 :> [kind |-> "Literal"])

Restrict(f, S) == [x \in S |-> f[x]]

\* the ids the compiler's maps may lack
Missing == {[statements |-> {}, expressions |-> {}],
            [statements |-> {3}, expressions |-> {}],
            [statements |-> {}, expressions |-> {2}],
            [statements |-> {2}, expressions |-> {3}]}

HirOf(path, missing) ==
    [nodes |-> << [kind |-> "Function", id |-> 1, name |-> FunctionName,
                   parameters |-> << [name |-> "p",
                                      param_type |-> HirType(path, Span(40, 41))] >>,
                   block |-> <<1, 2>>,
                   return_type |-> HirType(path, Span(50, 51))],
                  [kind |-> "Statement", id |-> 2] >>,
     statements |-> Restrict(Statements, DOMAIN Statements \ missing.statements),
     expressions |-> Restrict(Expressions, DOMAIN Expressions \ missing.expressions),
     path |-> path]

Hirs == {HirOf(p, m) : p \in Paths, m \in Missing}

NotTraversed == [symbols |-> <<>>, events |-> <<>>, hooks |-> 0, err |-> Ok, fail_at |-> 0]

TraverseIdle ==
    /\ hir_map = HirOf(PathOf(<<"Type">>, <<>>), [statements |-> {}, expressions |-> {}])
    /\ visitor = Visitor(0)
    /\ traversed = FALSE


----------------------------------------------------------------------------
(* SpecLocation: State::location_of as a function of content and position *)

\* the bytes of a document: a letter, line feed, carriage return
Bytes == {"a", "LF", "CR"}

Contents == SeqsUpTo(Bytes, MaxLen)

Positions == [line : 0..MaxLen, column : 0..MaxLen]

\* str::split_inclusive on LF: every piece but the last ends with the LF
RECURSIVE split_inclusive(_)
split_inclusive(content) ==
    IF content = <<>> THEN <<>>
    ELSE IF \E k \in 1..Len(content) : content[k] = "LF"
         THEN LET k == CHOOSE k \in 1..Len(content) :
                          content[k] = "LF" /\ \A j \in 1..(k - 1) : content[j] # "LF"
              IN <<SubSeq(content, 1, k)>> \o split_inclusive(SubSeq(content, k + 1, Len(content)))
         ELSE <<content>>

\* what str::lines makes of a piece: the LF is stripped, and a CR before it
strip_line_ending(piece) ==
    IF piece = <<>> \/ piece[Len(piece)] # "LF" THEN piece
    ELSE LET line == SubSeq(piece, 1, Len(piece) - 1)
         IN IF line # <<>> /\ line[Len(line)] = "CR"
            THEN SubSeq(line, 1, Len(line) - 1)
            ELSE line

\* str::lines
lines(content) ==
    LET pieces == split_inclusive(content)
    IN [i \in 1..Len(pieces) |-> strip_line_ending(pieces[i])]

\* the loop of State::location_of: the column, plus len + 1 for every line
\* before `line`
RECURSIVE index_of(_, _, _)
index_of(ls, line, column) ==
    IF ls = <<>> \/ line = 0 THEN column
    ELSE index_of(Tail(ls), line - 1, column + Len(Head(ls)) + 1)

\* State::location_of on a document with this content: index..index + 1
location_range(content, line, column) ==
    LET index == index_of(lines(content), line, column)
    IN [start |-> index, end |-> index + 1]

NoRange == [start |-> -1, end |-> -1]

LocationIdle ==
    /\ doc_content = <<>>
    /\ doc_position = [line |-> 0, column |-> 0]
    /\ doc_location = NoRange

\* a document with some content is in the VFS and a position is asked for
LocationInit ==
    /\ ServerInit /\ IndexInit /\ TraverseIdle /\ recording = FALSE
    /\ doc_content \in Contents
    /\ doc_position \in Positions
    /\ doc_location = NoRange

\* location_of(uri, line, column) returns
LocationOf ==
    /\ doc_location = NoRange
    /\ doc_location' = location_range(doc_content, doc_position.line, doc_position.column)
    /\ UNCHANGED <<svars, vsyms, bsyms, produced, phase, query, hit, doc_content, doc_position,
                   tvars>>

LocationNext == LocationOf

\* a HIR of the compiler and a visitor
TraverseInit ==
    /\ ServerInit /\ IndexInit /\ LocationIdle /\ recording = FALSE
    /\ hir_map \in Hirs
    /\ \E n \in 0..MaxFailAt : visitor = Visitor(n)
    /\ traversed = FALSE

\* traverse(hir, &mut visitor) returns
Traverse ==
    /\ ~traversed
    /\ traversed' = TRUE
    /\ visitor' = traverse(hir_map, hir_map.nodes, visitor)
    /\ UNCHANGED <<svars, vsyms, bsyms, produced, phase, query, hit, lvars, hir_map>>

TraverseNext == Traverse

IndexNext ==
    \/ \E e \in Locations : VisitType(e)
    \/ \E e \in Locations : VisitExpr(e)
    \/ \E e \in Locations : VisitPath(e)
    \/ FromHirReturn
    \/ \E location \in Queries : LookupPosition(location)

Init == ServerInit /\ IndexInit /\ LocationIdle /\ TraverseIdle /\ recording = FALSE

\* the same, with the history of notifications kept
RecordingInit ==
    ServerInit /\ IndexInit /\ LocationIdle /\ TraverseIdle /\ recording = TRUE

\* the server's steps on the documents `uris` with the texts `texts`
ServerNext(uris, texts) ==
    \/ InitialCompile
    \/ \E u \in uris, t \in texts : OpenDocument(u, t)
    \/ DiscoverStep
    \/ Reopen
    \/ \E u \in uris : CloseDocument(u)
    \/ \E u \in uris, t \in texts : SaveDocument(u, t)
    \/ \E u \in uris, t \in texts : ChangeDocument(u, t)
    \/ \E g \in Graphs : CheckReturnsOk(g)

\* the server on every document; the driver emits no diagnostics and fails
\* with an error that has no labels
Next ==
    \/ \E folders \in InitializeParams : Initialize(folders)
    \/ ServerNext(Uris, Texts)
    \/ CheckReturnsErr(DiagN)

Spec == Init /\ [][Next]_vars

\* the server on one document; the driver emits diagnostics
DiagInit == Init

DiagNext ==
    \/ Initialize(Folders(<< <<"ws">> >>))
    \/ ServerNext({FileA}, {"t1"})
    \/ \E d \in DiagPool : DriverEmits(d)
    \/ \E e \in DiagPool : CheckReturnsErr(e)

SpecDiag == DiagInit /\ [][DiagNext]_vars

\* the server on two documents, the history of notifications kept
PairNext ==
    \/ \E folders \in InitializeParams : Initialize(folders)
    \/ ServerNext({FileA, FileB}, Texts)
    \/ CheckReturnsErr(DiagN)

SpecPair == RecordingInit /\ [][PairNext]_vars

\* the server on three documents with one text, the history of notifications
\* kept
TrioNext ==
    \/ Initialize(Folders(<< <<"ws">> >>))
    \/ ServerNext({FileA, FileB, FileC}, {"t1"})
    \/ CheckReturnsErr(DiagN)

SpecTrio == RecordingInit /\ [][TrioNext]_vars

\* the server on one document; a compile may also return a graph whose first
\* package has a HIR the traversal fails on
GraphNext ==
    \/ Initialize(Folders(<< <<"ws">> >>))
    \/ ServerNext({FileA}, Texts)
    \/ CheckReturnsOk(Graph3)
    \/ CheckReturnsErr(DiagN)

SpecGraph == Init /\ [][GraphNext]_vars

\* compile_workspace's call of the driver returns
CompilerReturns ==
    \/ CheckReturnsErr(DiagN)
    \/ \E g \in Graphs \cup {Graph3} : CheckReturnsOk(g)

\* the same server, where a handler that can take a step takes it and every
\* compiler invocation returns; when the next message arrives is left open
SpecGraphLive ==
    /\ SpecGraph
    /\ WF_vars(DiscoverStep)
    /\ WF_vars(Reopen)
    /\ WF_vars(CompilerReturns)

\* the server on one document, the driver emitting one diagnostic, the
\* history of notifications kept
RerunNext ==
    \/ Initialize(Folders(<< <<"ws">> >>))
    \/ ServerNext({FileA}, {"t1"})
    \/ DriverEmits(DiagA1)
    \/ CheckReturnsErr(DiagN)

SpecRerun == RecordingInit /\ [][RerunNext]_vars

\* the server on two documents with every kind of message
MsgNext ==
    \/ Initialize(Folders(<< <<"ws">> >>))
    \/ ServerNext({FileA, FileB}, {"t1"})
    \/ \E e \in {DiagN, DiagA1} : CheckReturnsErr(e)
    \/ \E id \in RequestIds : ShutdownRequest(id)
    \/ \E id \in RequestIds, u \in {FileA, FileB}, c \in 0..MaxPos, r \in Renderings :
          HoverRequest(id, u, c, r)
    \/ \E id \in RequestIds : HoverRequestMalformed(id)
    \/ \E id \in RequestIds, m \in OtherMethods : OtherRequest(id, m)
    \/ \E m \in OtherNotifications : OtherNotification(m)
    \/ \E id \in RequestIds : StrayResponse(id)
    \/ \E u \in {FileA, FileB} : ChangeDocumentNoChanges(u)
    \/ \E u \in {FileA, FileB} : SaveDocumentNoText(u)

SpecMsg == Init /\ [][MsgNext]_vars

\* the symbol index on its own
SpecIndex == Init /\ [][IndexNext]_vars

\* the server of main.rs on two documents, the driver emitting diagnostics
BackendNext ==
    \/ \E folders \in InitializeParams : BackendInitialize(folders)
    \/ \E k \in {"open", "save", "change"}, u \in {FileA, FileB}, t \in {"t1"} :
          BackendInsert(k, u, t)
    \/ \E u \in {FileA, FileB} : BackendCloseDocument(u)
    \/ \E d \in DiagPool : DriverEmits(d)
    \/ \E g \in Graphs : BackendCheckReturns(g, <<>>)
    \/ \E e \in DiagPool : BackendCheckReturns(EmptyGraph, <<e>>)

SpecBackend == Init /\ [][BackendNext]_vars

\* location_of on its own
SpecLocation == LocationInit /\ [][LocationNext]_vars

\* traverse on its own
SpecTraverse == TraverseInit /\ [][TraverseNext]_vars

----------------------------------------------------------------------------
(* Claims about diagnostics (checked under SpecDiag) *)

\* a compile_workspace call has returned and no later step has run
CompileDone == lastCompile \in {"ok", "err"}

\* the diagnostics the compile put into the DiagCtx whose primary label
\* lowers to the file f, in order of emission
ProducedFor(f) ==
    LET forF(d) == /\ lowered_labels(workspace_root, d) # <<>>
                   /\ lowered_labels(workspace_root, d)[1] = f
        ds == SelectSeq(emitted, forF)
    IN [i \in 1..Len(ds) |-> ds[i].id]

EmptyPublishes(f) ==
    Cardinality({i \in 1..Len(sent) : sent[i].uri = f /\ sent[i].diagnostics = <<>>})

\* C1: a file that received a diagnostic in compile k and receives none in
\* compile k+1 is sent exactly one publishDiagnostics(f, []) during compile
\* k+1, whether compile k+1 succeeds or fails.
C1_ClearedOnce ==
    CompileDone =>
        \A f \in hadDiag :
            (f \notin NonEmptyTargets(sent) /\ ProducedFor(f) = <<>>)
                => EmptyPublishes(f) = 1

\* C2: when compile_workspace has returned, successful or failed, the shared
\* diagnostic context is empty.
C2_DcxEmptyAfterCompile == CompileDone => dcx = <<>>

\* C3: every diagnostic with a lowerable label that the compiler emitted
\* during a compile has been sent as a publishDiagnostics notification when
\* the compile returns, for successful and failed compiles alike.
C3_EmittedIsPublished ==
    CompileDone =>
        \A i \in 1..Len(emitted) :
            lowered_labels(workspace_root, emitted[i]) # <<>>
                => \E j \in 1..Len(sent) :
                      /\ sent[j].uri = lowered_labels(workspace_root, emitted[i])[1]
                      /\ \E k \in 1..Len(sent[j].diagnostics) :
                            sent[j].diagnostics[k] = emitted[i].id

\* C4: the last publishDiagnostics sent for a file lists all the diagnostics
\* the most recent compile produced for it, and is empty exactly when the
\* file was in prev \ curr at that compile. Stated for the compiles that
\* reach the drain, where notifications are sent at all.
C4_LastPublishListsAll ==
    lastCompile = "err" =>
        \A f \in Uris :
            /\ ProducedFor(f) # <<>> => lastPub[f] = ProducedFor(f)
            /\ f \in error_files_prev \ error_files_curr => lastPub[f] = <<>>
            /\ (HasPublish(sent, f) /\ LastPublish(sent, f).diagnostics = <<>>)
                  => f \in error_files_prev \ error_files_curr

----------------------------------------------------------------------------
(* Claims about the checked workspace and the VFS (checked under Spec) *)

Holds(uri, text) ==
    IF text = "absent"
    THEN ~HasDocument(source_files, uri)
    ELSE /\ HasDocument(source_files, uri)
         /\ get_document(source_files, uri).file.content = text

\* C10 as stated: for every URI the VFS holds the text of the URI's last
\* didOpen, didChange or didSave, whether or not the URI was opened before or
\* is listed in a checked package, and no entry after a didClose.
C10_VfsHoldsLastNotified ==
    pc = "listen" => \A u \in Uris : Holds(u, lastNote[u])

\* C10: for every URI the VFS holds the text of the last notification that
\* took effect on it: a didOpen of a file that source_of_uri resolves, a
\* didChange or didSave of a URI that has an entry, a didClose (no entry).
\* A didChange or didSave of a URI without an entry and a didOpen of a file
\* no checked package lists leave the VFS as it is.
C10_VfsHoldsLastApplied ==
    pc = "listen" => \A u \in Uris : Holds(u, lastApplied[u])

\* C10 witness: a document was opened with one text and then changed or saved
\* with another, which the VFS holds
C10_Witness ==
    /\ pc = "listen"
    /\ \E u \in Uris :
          /\ lastApplied[u] = "t2"
          /\ lastNote[u] = "t2"
          /\ Holds(u, "t2")
    /\ \E u \in Uris : lastNote[u] = "t1" /\ lastApplied[u] = "absent"

\* what the next build_source_overrides call returns
Overrides == build_source_overrides(source_files, workspace_root, <<>>)

\* C11: in every reachable state, for every URI held in the VFS, the map the
\* next build_overrides() call returns has an entry for the URI's file name
\* whose value is the URI's current VFS content.
C11_OverridesHoldEveryDocument ==
    \A i \in 1..Len(source_files) :
        \E j \in 1..Len(Overrides) :
            /\ Overrides[j].key = relative_path(workspace_root, source_files[i].uri)
            /\ Overrides[j].value = source_files[i].file.content

----------------------------------------------------------------------------
(* Claims about pairs of notifications (checked under SpecPair, SpecRerun) *)

\* the handler of a didClose(u) that came right after a didOpen(u, t) is
\* through
ClosedAfterOpen ==
    /\ pc = "listen"
    /\ note # NoNote /\ prevNote # NoNote
    /\ note.kind = "close" /\ prevNote.kind = "open"
    /\ note.uri = prevNote.uri

\* C12 as stated: didOpen(u, t) followed by didClose(u) leaves
\* build_overrides() equal (as a map) to its value before the didOpen, also
\* when u was already open before the didOpen.
C12_OpenCloseRestoresAlways ==
    ClosedAfterOpen => Range(Overrides) = Range(prevNote.overrides)

\* C12: didOpen(u, t) followed by didClose(u) leaves build_overrides() equal
\* to its value before the didOpen when u had no VFS entry then (also when
\* the didOpen went through workspace discovery); when u was already open
\* the pair removes u's entry.
C12_OpenCloseRestores ==
    ClosedAfterOpen =>
        /\ ~prevNote.held => Overrides = prevNote.overrides
        /\ ~HasDocument(source_files, note.uri)

\* C12 witness: the didOpen added the document next to another one, and the
\* didClose took it out again
C12_Witness ==
    /\ ClosedAfterOpen
    /\ ~prevNote.held
    /\ HasDocument(note.pre.source_files, note.uri)
    /\ Overrides # <<>>

\* the handler of the second of two didChange(u, t) in a row is through, and
\* the compiler answered the second compile as it answered the first
ChangedTwice ==
    /\ pc = "listen"
    /\ note # NoNote /\ prevNote # NoNote
    /\ note.kind = "change" /\ prevNote.kind = "change"
    /\ note.uri = prevNote.uri /\ note.text = prevNote.text
    /\ lastCompile = note.pre.result
    /\ lastCompile = "ok" => lastOk = note.pre.packages

\* C13: didChange(u, t) twice in a row leaves the VFS, build_overrides(),
\* the stored graph and the Symbol Index as one didChange(u, t) left them,
\* given a deterministic compiler.
C13_ChangeIdempotent ==
    ChangedTwice =>
        /\ source_files = note.pre.source_files
        /\ Overrides = build_source_overrides(note.pre.source_files, note.pre.root, <<>>)
        /\ graph = note.pre.graph
        /\ symbols = note.pre.symbols

\* C13 witness: the document is open, holds the text, and both compiles
\* succeeded with a non-empty index
C13_Witness ==
    /\ ChangedTwice
    /\ HasDocument(source_files, note.uri)
    /\ get_document(source_files, note.uri).file.content = note.text
    /\ lastCompile = "ok"
    /\ symbols # <<>>

NonEmptyPublications(ns) == SelectSeq(ns, LAMBDA n : n.diagnostics # <<>>)

\* two compile_workspace calls in a row on the same VFS, the compiler
\* emitting and returning the same both times
CompiledTwice ==
    /\ pc = "listen"
    /\ CompileDone
    /\ note # NoNote
    /\ note.pre.result \in {"ok", "err"}
    /\ note.pre.source_files = source_files
    /\ note.pre.root = workspace_root
    /\ note.pre.result = lastCompile
    /\ note.pre.emitted = emitted
    /\ lastCompile = "ok" => note.pre.packages = lastOk

\* C14: two consecutive compile_workspace calls with no VFS change in between
\* and a deterministic compiler send the same sequence of non-empty
\* publishDiagnostics notifications.
C14_RecompileSamePublications ==
    CompiledTwice =>
        NonEmptyPublications(sent) = NonEmptyPublications(note.pre.sent)

----------------------------------------------------------------------------
(* Claims about requests and the receive loop (checked under SpecMsg) *)

\* the last message taken from the channel was a request
Requested == request # NoRequest

\* C15: a request whose method is neither shutdown nor textDocument/hover is
\* answered with an error response carrying the request's id and the code
\* MethodNotFound.
C15_UnknownMethodNotFound ==
    (Requested /\ request.method \notin {"shutdown", "textDocument/hover"}) =>
        \E i \in 1..Len(outbox) :
            /\ outbox[i].id = request.id
            /\ ~outbox[i].ok
            /\ outbox[i].code = "MethodNotFound"

\* C16: every request taken from the channel (hover with valid or malformed
\* params, unknown method, shutdown) has exactly one Response with its id
\* pushed to the outbound channel before the next message is taken.
C16_OneResponsePerRequest ==
    Requested => /\ Len(outbox) = 1
                 /\ outbox[1].id = request.id

\* C17: a shutdown request is answered with one success response carrying
\* its id and the receive loop is left: the loop is only left that way, and
\* once it is left no message is handled (no VFS change, no compile, no
\* outbound message).
C17_ShutdownStops ==
    [][ /\ request'.method = "shutdown" =>
              /\ pc' = "stopped"
              /\ outbox' = <<ResponseOk(request'.id, "null")>>
        /\ (pc # "stopped" /\ pc' = "stopped") =>
              /\ request'.method = "shutdown"
              /\ UNCHANGED <<workspace_root, source_files, graph, symbols,
                             error_files_prev, error_files_curr, dcx>>
        /\ pc = "stopped" => UNCHANGED svars ]_vars

\* C17 witness: the loop was left with documents open
C17_Witness ==
    /\ pc = "stopped"
    /\ source_files # <<>>
    /\ outbox = <<ResponseOk(request.id, "null")>>

\* the process panicked while handling a message of the receive loop
LoopPanicked == pc = "panicked" /\ workspace_folders.list # <<>>

\* C18: no decode failure or handler failure ends the receive loop: after a
\* didChange without content changes, a didSave without text or params that
\* do not decode the server still takes the following messages.
C18_LoopSurvives == ~LoopPanicked

\* the Response a hover request with decoded params was answered with
HoverAnswered == Requested /\ request.method = "textDocument/hover" /\ request.decoded

\* C19: a hover request has exactly one of three outcomes: an InvalidParams
\* error if and only if the document is not in the VFS; a RequestFailed error
\* carrying the diagnostic's message if rendering returned an error;
\* otherwise a success response with Markdown content, the empty string when
\* no index entry encloses the position.
C19_HoverOutcomes ==
    HoverAnswered =>
        LET held == HasDocument(source_files, request.uri)
            sym == lookup_position(symbols,
                       location_of(source_files, request.uri, request.column))
            failed == held /\ sym # NoEntry /\ ~request.rendering.ok
        IN /\ Len(outbox) = 1
           /\ outbox[1].id = request.id
           /\ (~outbox[1].ok /\ outbox[1].code = "InvalidParams") <=> ~held
           /\ failed => /\ ~outbox[1].ok
                         /\ outbox[1].code = "RequestFailed"
                         /\ outbox[1].value = request.rendering.content
           /\ (held /\ ~failed) =>
                 /\ outbox[1].ok
                 /\ outbox[1].value.kind = "markdown"
                 /\ sym = NoEntry => outbox[1].value.value = ""

\* C19 witness: a hover on a Call entry whose rendering failed was answered
\* with RequestFailed
C19_Witness ==
    /\ HoverAnswered
    /\ HasDocument(source_files, request.uri)
    /\ Len(outbox) = 1
    /\ outbox[1].code = "RequestFailed"

\* C20: when the initialize parameters supply no workspace folder (the field
\* is absent or the list is empty), initialize returns an error without
\* panicking, without a compile and without entering the receive loop.
C20_NoFolderIsError ==
    (pc # "start" /\ (~workspace_folders.present \/ workspace_folders.list = <<>>))
        => pc = "failed"

----------------------------------------------------------------------------
(* Claims about the symbol index (checked under SpecIndex) *)

\* the entries of the finished index that satisfy the lookup predicate for
\* the query: same file, start <= Q.start <= end
Enclosing == {e \in Range(bsyms) : /\ e.file = query.file
                                   /\ e.start <= query.start
                                   /\ query.start <= e.end}

\* C6: lookup_position(Q) returns an entry E only if E is in Q's file,
\* E.start <= Q.start <= E.end (both ends inclusive) and no entry satisfying
\* that has a strictly shorter span; it returns absent exactly when no entry
\* satisfies the predicate.
C6_LookupSmallestEnclosing ==
    phase = "queried" =>
        /\ hit # NoEntry =>
              /\ hit \in Enclosing
              /\ \A e \in Enclosing : e.end - e.start >= hit.end - hit.start
        /\ hit = NoEntry <=> Enclosing = {}

\* C6 witness: a query on the closing boundary of the entry returned, with a
\* second, longer entry enclosing the position too
C6_Witness ==
    /\ phase = "queried"
    /\ hit # NoEntry
    /\ query.start = hit.end
    /\ \E e \in Enclosing : e.end - e.start > hit.end - hit.start

\* C7: among the entries that satisfy the predicate with the minimal span
\* length, lookup_position returns the least in the order (package, file-id,
\* start), whatever the insertion order was.
C7_TieLeastInOrder ==
    (phase = "queried" /\ hit # NoEntry) =>
        \A e \in Enclosing :
            e.end - e.start = hit.end - hit.start => Cmp(hit, e) <= 0

IsSorted(s) ==
    \A i, j \in 1..Len(s) :
        i < j => /\ Cmp(s[i], s[j]) <= 0
                 /\ Cmp(s[i], s[j]) = 0 => RangeLen(s[i]) <= RangeLen(s[j])

\* C8: after from_hir and after any sequence of extend calls the index
\* iterates in non-decreasing (package, file-id, start) order, entries equal
\* on the three keys in order of range length.
C8_IndexSorted == vsyms = <<>> => IsSorted(bsyms)

\* C9: the index is exactly the set of distinct (location, kind) pairs the
\* visitor produced: identical pairs collapse, and no pair is dropped because
\* a different pair with the same package, file and start is present.
C9_IndexIsProducedSet ==
    vsyms = <<>> =>
        /\ Range(bsyms) = produced
        /\ Len(bsyms) = Cardinality(produced)

----------------------------------------------------------------------------
(* Claims about the workspace root and the compiles of a handler (Spec) *)

\* a State exists: initialize got as far as State::new
StateBuilt == pc \in {"init", "listen", "check", "discover", "reopen", "stopped"}

\* C21: in every reachable state the recorded workspace root ends in '/',
\* also after a didOpen has re-set the root through the parent walk.
C21_RootEndsInSlash == StateBuilt => workspace_root.slash

\* C22: after a successful initialize exactly one compile_workspace call runs
\* to completion before the first message is taken from the incoming channel.
C22_OneCompileBeforeFirstMessage ==
    /\ (StateBuilt /\ ~dequeued) => compiles <= 1
    /\ (pc = "listen" /\ ~dequeued) => (compiles = 1 /\ lastCompile \in {"ok", "err"})

\* the parent walk of a didOpen is in progress: the handler is in the while
\* loop, or in the compile_workspace call the loop made
Discovering == pc \in {"discover", "reopen"} \/ (pc = "check" /\ ret = "discover")

\* C23: while one didOpen is handled for a URI no checked package lists, with
\* an empty graph, the parent walk calls compile_workspace at most once, also
\* when the compile it retried yields no packages.
C23_DiscoveryCompilesOnce == Discovering => compiles <= 1

----------------------------------------------------------------------------
(* Claims about location_of (SpecLocation) *)

\* the byte offset at which line `line` of the content starts: the offset
\* just past its line-th LF, or the content's length when it has fewer lines
RECURSIVE LineStart(_, _, _)
LineStart(content, line, from) ==
    IF line = 0 \/ from > Len(content) THEN from - 1
    ELSE LineStart(content, IF content[from] = "LF" THEN line - 1 ELSE line, from + 1)

\* the byte the position names: the start of its line plus its column
PositionOffset == LineStart(doc_content, doc_position.line, 1) + doc_position.column

\* C24: location_of returns the single-byte range [i, i+1) with i the byte
\* offset of the start of the line plus the column, clipped so that the range
\* lies within the content, for every position: (0,0), end of file, just past
\* the last newline, a line beyond the last one, and with CRLF line endings.
C24_LocationWithinContent ==
    doc_location # NoRange =>
        /\ doc_location.end = doc_location.start + 1
        /\ doc_content # <<>> => doc_location.end <= Len(doc_content)
        /\ PositionOffset < Len(doc_content) => doc_location.start = PositionOffset

----------------------------------------------------------------------------
(* Claims about one drain (SpecDiag) *)

\* the diagnostics a drain that starts now iterates: those the DiagCtx
\* holds, then the error `err` that compile_workspace emits before draining
Drained(err) == Append(dcx, err)

HasLoweredLabel(d) == lowered_labels(workspace_root, d) # <<>>

\* one notification per diagnostic with a lowered label, to its first label
OnePerDiagnostic(ds) ==
    LET with == SelectSeq(ds, HasLoweredLabel)
    IN [i \in 1..Len(with) |->
          PublishDiagnostics(lowered_labels(workspace_root, with[i])[1], <<with[i].id>>)]

\* C25: during a drain each diagnostic with at least one lowered label produces
\* exactly one publishDiagnostics notification, in drain order, addressed to
\* the URI of its first lowered label and carrying that diagnostic alone;
\* every non-empty notification carries exactly one diagnostic.
C25_OnePublishPerDiagnostic ==
    [][(pc = "check" /\ lastCompile' = "err") =>
          /\ NonEmptyPublications(sent') = OnePerDiagnostic(Drained(emitted'[Len(emitted')]))
          /\ \A i \in 1..Len(sent') : Len(sent'[i].diagnostics) <= 1]_vars

\* a drain of three diagnostics has ended: one had no label that lowers, one
\* had two that do, one had a first label that does not lower
C25_Witness ==
    /\ lastCompile = "err"
    /\ emitted = <<DiagB, DiagU, DiagA2>>
    /\ NonEmptyPublications(sent) =
          <<PublishDiagnostics(FileB, <<"B">>), PublishDiagnostics(FileA, <<"A2">>)>>

\* C26: within one compile every empty (clearing) publication is sent after
\* all the non-empty publications of that compile.
C26_ClearsComeLast ==
    \A i, j \in 1..Len(sent) :
        (i < j /\ sent[i].diagnostics = <<>>) => sent[j].diagnostics = <<>>

\* a compile published a diagnostic for one file and cleared another
C26_Witness ==
    /\ lastCompile = "err"
    /\ \E i, j \in 1..Len(sent) : sent[i].diagnostics # <<>> /\ sent[j].diagnostics = <<>>

\* C27: at the start of every compile_workspace call, before the compiler is
\* invoked, prev becomes the value curr had when the call began (the old prev
\* is discarded) and curr becomes the empty set.
C27_CurrMovesIntoPrev ==
    [][(pc # "check" /\ pc' = "check") =>
          (error_files_prev' = error_files_curr /\ error_files_curr' = {})]_vars

\* a compile has begun after one that left files in curr; the compiler has
\* not returned yet
C27_Witness ==
    /\ pc = "check"
    /\ error_files_prev = {FileA, FileB}
    /\ error_files_curr = {}
    /\ dcx # <<>>

\* the files the lowered labels of the diagnostics ds name
LoweredFiles(ds) == UNION {Range(lowered_labels(workspace_root, ds[i])) : i \in 1..Len(ds)}

\* C28: a drained diagnostic that has no labels, or whose labels all fail
\* lowering (no source, or no source name), sends no notification and leaves
\* the curr error-file set unchanged: a drain sends non-empty notifications
\* only for the diagnostics with a lowered label and adds only their files.
C28_UnloweredDropped ==
    [][(pc = "check" /\ lastCompile' = "err") =>
          LET ds == Drained(emitted'[Len(emitted')])
              with == SelectSeq(ds, HasLoweredLabel)
          IN /\ \A i \in 1..Len(sent') :
                   sent'[i].diagnostics # <<>> =>
                       \E k \in 1..Len(with) : sent'[i].diagnostics = <<with[k].id>>
             /\ Len(NonEmptyPublications(sent')) = Len(with)
             /\ error_files_curr' = error_files_curr \cup LoweredFiles(with)
             /\ with = <<>> => error_files_curr' = error_files_curr]_vars

\* a drain of a diagnostic whose labels all fail lowering and of one without
\* labels has ended: nothing was sent, curr is as the compile's start left it
C28_Witness ==
    /\ lastCompile = "err"
    /\ emitted = <<DiagU, DiagN>>
    /\ sent = <<>>
    /\ error_files_curr = {}

----------------------------------------------------------------------------
(* Claims about the VFS operations (SpecPair) *)

\* the last notification was a didChange or a didSave: the VFS is what
\* Vfs::change_document made of the VFS the notification met
Changed == note # NoNote /\ note.kind \in {"change", "save"}

\* C29: Vfs change(uri, content) on a URI without an entry leaves the VFS
\* unchanged (no entry added, none modified, order kept); on a URI with an
\* entry it replaces only the content, keeping the entry's id, name, package
\* and position.
C29_ChangeReplacesContentOnly ==
    Changed =>
        LET before == note.pre.source_files
        IN IF ~HasDocument(before, note.uri)
           THEN source_files = before
           ELSE /\ Len(source_files) = Len(before)
                /\ \A i \in 1..Len(before) :
                      IF before[i].uri # note.uri
                      THEN source_files[i] = before[i]
                      ELSE /\ source_files[i].uri = note.uri
                           /\ source_files[i].file.id = before[i].file.id
                           /\ source_files[i].file.name = before[i].file.name
                           /\ source_files[i].file.package = before[i].file.package
                           /\ source_files[i].file.content = note.text

\* a didChange gave new content to the first of two documents
C29_Witness ==
    /\ Changed
    /\ Len(note.pre.source_files) = 2
    /\ note.pre.source_files[1].uri = note.uri
    /\ note.pre.source_files[1].file.content # note.text
    /\ source_files[1].file.content = note.text

\* the URIs of the documents, in VFS order
UrisOf(sf) == [i \in 1..Len(sf) |-> sf[i].uri]

\* the keys build_source_overrides yields for the documents, in its order
OverrideKeys(sf) ==
    LET m == build_source_overrides(sf, workspace_root, <<>>)
    IN [i \in 1..Len(m) |-> m[i].key]

\* what is left of the sequence s without the element x, order kept
Without(s, x) == SelectSeq(s, LAMBDA y : y # x)

\* C30: after any sequence of add, change and remove operations
\* build_overrides() iterates the remaining documents in the order in which
\* they were first added to the VFS: removing one document does not reorder
\* the others.
C30_RemoveKeepsOrder ==
    (note # NoNote /\ note.kind = "close") =>
        /\ UrisOf(source_files) = Without(UrisOf(note.pre.source_files), note.uri)
        /\ OverrideKeys(source_files) =
              Without(OverrideKeys(note.pre.source_files),
                      relative_path(workspace_root, note.uri))

----------------------------------------------------------------------------
(* Claims about the messages the receive loop ignores (SpecMsg) *)

\* C31: a notification with an unknown method and a stray Response leave the
\* VFS, the stored graph, the Symbol Index and both error-file sets unchanged,
\* trigger no compile and push nothing to the outbound channel.
C31_IgnoredMessagesChangeNothing ==
    [][(pc = "listen" /\ last_message' \in {"notification", "response"}) =>
          /\ UNCHANGED <<source_files, workspace_root, graph, symbols,
                         error_files_prev, error_files_curr, dcx>>
          /\ pc' = "listen"
          /\ compiles' = 0
          /\ sent' = sent
          /\ outbox' = <<>>]_vars

\* an unknown notification was taken with documents open and an index built
C31_Witness ==
    /\ last_message = "notification"
    /\ pc = "listen"
    /\ source_files # <<>>
    /\ symbols # <<>>

\* a message is taken from the incoming channel in this step
Dequeues ==
    \/ ~dequeued /\ dequeued'
    \/ last_message' # last_message
    \/ request' # request
    \/ lastNote' # lastNote

\* C32: messages are handled one at a time in arrival order: every outbound
\* message (response or publishDiagnostics) caused by a message is pushed
\* before the next message is taken, so responses appear in the order of
\* their requests.
C32_OneMessageAtATime ==
    [][/\ Dequeues => pc = "listen"
       /\ \A i \in 1..Len(outbox') : outbox'[i].id = request'.id
       /\ (sent' # sent /\ sent' # <<>>) =>
             (pc = "check" /\ ~Dequeues)
       /\ (pc \in {"check", "discover", "reopen"}) => ~Dequeues]_vars

\* a hover was answered after the compile of the notification before it had
\* published its diagnostics
C32_Witness ==
    /\ pc = "listen"
    /\ request.method = "textDocument/hover"
    /\ request.id = 2
    /\ Len(outbox) = 1 /\ outbox[1].id = 2
    /\ sent # <<>>

----------------------------------------------------------------------------
(* Claims about the index of a graph (SpecGraph) *)

\* the entries of the indexes from_hir builds for the packages of g whose
\* traversal succeeds
BuiltEntries(g) ==
    UNION {Range(from_hir(g[i].hir, <<>>)) : i \in {j \in 1..Len(g) : g[j].hir_ok}}

\* C33: on a successful compile, if building the index fails for some
\* packages, the new Symbol Index is the union of the indexes of exactly the
\* packages whose build succeeded, and the stored graph is still replaced by
\* the new graph.
C33_IndexOfBuiltPackages ==
    lastCompile = "ok" =>
        /\ graph = lastOk
        /\ Range(symbols) = BuiltEntries(lastOk)
        /\ Len(symbols) = Cardinality(BuiltEntries(lastOk))

\* a compile returned a graph whose first package's index failed to build,
\* after a compile whose graph had another index
C33_Witness ==
    /\ lastCompile = "ok"
    /\ graph = Graph3
    /\ Range(symbols) = Range(from_hir(Hir1, <<>>))
    /\ source_files # <<>>

----------------------------------------------------------------------------
(* Claims about the traversal (SpecTraverse) *)

\* C34: if any visitor hook or any id resolution (expect_expression,
\* expect_statement) returns an error during traverse, traverse returns that
\* first error and invokes no visitor hook afterwards: the failing call is the
\* last call made, and its error is what traverse returns.
C34_FirstErrorAborts ==
    traversed =>
        LET ev == visitor.events
        IN /\ \A i \in 1..(Len(ev) - 1) : ev[i].ok
           /\ Failed(visitor) <=> (ev # <<>> /\ ~ev[Len(ev)].ok)
           /\ (visitor.err.kind = "hook") =>
                 /\ ev[Len(ev)].call \notin {"expect_statement", "expect_expression"}
                 /\ visitor.err.at = visitor.fail_at
                 /\ visitor.hooks = visitor.fail_at
           /\ (visitor.err.kind \in {"expect_statement", "expect_expression"}) =>
                 /\ ev[Len(ev)].call = visitor.err.kind
                 /\ visitor.err.at \notin DOMAIN (IF visitor.err.kind = "expect_statement"
                                                  THEN hir_map.statements
                                                  ELSE hir_map.expressions)

\* traverse returned the error of an id resolution after hooks that
\* returned Ok, with a second node left to traverse
C34_Witness ==
    /\ traversed
    /\ visitor.err = Err("expect_expression", 2)
    /\ visitor.hooks > 2
    /\ visitor.fail_at = 0

\* traverse returned the error of a hook
C34_WitnessHook ==
    /\ traversed
    /\ visitor.err = Err("hook", MaxFailAt)

\* the segments of a path, root first
SegmentsOf(path) == Append(path.root, path.name)

\* the prefix of a path up to and including its i-th segment
PrefixOf(path, i) == HirPath(SubSeq(path.root, 1, i - 1), SegmentsOf(path)[i])

TypeSegmentsOf(path) ==
    {i \in 1..Len(SegmentsOf(path)) : SegmentsOf(path)[i].kind = "Type"}

\* the entry for the i-th segment: at the segment, named by the prefix
PrefixEntry(path, i) ==
    LocatedEntry(SegmentsOf(path)[i].location, KindType(PrefixOf(path, i)))

\* the entries of the index that name a prefix of the path at one of the
\* path's segments
PrefixEntriesIn(syms, path) ==
    {e \in Range(syms) :
        \E i \in 1..Len(SegmentsOf(path)) :
            /\ e.kind = KindType(PrefixOf(path, i))
            /\ Span(e.start, e.end) = SegmentsOf(path)[i].location}

\* C35: traversing a path that has n Type segments adds n Type entries to the
\* index, the i-th located at the i-th Type segment's location and named by
\* the path prefix up to and including that segment; the entries are n
\* different ones and no other prefix of the path gets an entry.
C35_EntryPerTypeSegment ==
    (traversed /\ ~Failed(visitor)) =>
        LET path == hir_map.path
            entries == {PrefixEntry(path, i) : i \in TypeSegmentsOf(path)}
        IN /\ entries = PrefixEntriesIn(visitor.symbols, path)
           /\ Cardinality(entries) = Cardinality(TypeSegmentsOf(path))
           /\ \A i, j \in TypeSegmentsOf(path) :
                 i # j => Span(PrefixEntry(path, i).start, PrefixEntry(path, i).end)
                          # Span(PrefixEntry(path, j).start, PrefixEntry(path, j).end)

\* a path of three Type segments was traversed and the index holds an entry
\* at the middle one, named by the prefix of two segments
C35_Witness ==
    /\ traversed /\ ~Failed(visitor)
    /\ Cardinality(TypeSegmentsOf(hir_map.path)) = 3
    /\ Cardinality(PrefixEntriesIn(visitor.symbols, hir_map.path)) = 3
    /\ PrefixEntry(hir_map.path, 2) \in Range(visitor.symbols)
    /\ Len(PrefixEntry(hir_map.path, 2).kind.name.root) = 1

----------------------------------------------------------------------------
(* Claims about termination (SpecGraphLive) *)

\* C36: handling of every incoming message terminates, provided each compiler
\* invocation terminates: a handler that is in a compile or in the parent
\* walk of a didOpen gets back to the receive loop, also when an ancestor
\* directory holds an Arcfile whose compile yields no packages.
C36_HandlerReturns == InHandler(pc) ~> (pc = "listen")

----------------------------------------------------------------------------
(* Claims about the clear-publications (SpecDiag) *)

\* the files sent an empty publishDiagnostics by the compile
ClearedFiles(ns) == {ns[i].uri : i \in {j \in 1..Len(ns) : ns[j].diagnostics = <<>>}}

\* C37: an empty publishDiagnostics(f, []) is sent only for a file f that
\* received a non-empty publishDiagnostics in the preceding compile; a file
\* that appeared only as a related (non-primary) label of a diagnostic never
\* receives a clear-publication.
C37_ClearsOnlyPublished == CompileDone => ClearedFiles(sent) \subseteq hadDiag

\* C38: within one compile no file receives both a non-empty
\* publishDiagnostics and an empty publishDiagnostics: the files cleared in a
\* compile and the files that receive a diagnostic in it are disjoint.
C38_ClearedDisjointFromPublished ==
    CompileDone => ClearedFiles(sent) \cap NonEmptyTargets(sent) = {}

\* a compile that cleared one file and sent a diagnostic to another, where
\* the file it sent to had been sent a diagnostic by the compile before
C38_Witness ==
    /\ CompileDone
    /\ ClearedFiles(sent) # {}
    /\ NonEmptyTargets(sent) # {}
    /\ NonEmptyTargets(sent) \cap hadDiag # {}

----------------------------------------------------------------------------
(* Claims about the hover request's frame (SpecMsg) *)

\* the step in which the receive loop takes a textDocument/hover request
HoverStep ==
    /\ pc = "listen"
    /\ last_message' = "request"
    /\ request'.method = "textDocument/hover"

\* C39: handling a textDocument/hover request changes no server state: the
\* VFS, the workspace root, the stored graph, the Symbol Index, both
\* error-file sets and the diagnostic context are the same after the request
\* as before it, and no compile and no publishDiagnostics is triggered.
C39_HoverChangesNothing ==
    [][HoverStep =>
          /\ UNCHANGED <<source_files, workspace_root, graph, symbols,
                         error_files_prev, error_files_curr, dcx>>
          /\ pc' = "listen"
          /\ lastCompile' # "running"
          /\ sent' = sent]_vars

\* a hover was answered with success on a server that holds a document, an
\* index and error files, and the server is back in the receive loop
C39_Witness ==
    /\ pc = "listen"
    /\ last_message = "request"
    /\ request.method = "textDocument/hover"
    /\ request.decoded
    /\ Len(outbox) = 1 /\ outbox[1].ok
    /\ source_files # <<>>
    /\ symbols # <<>>
    /\ error_files_curr # {}

----------------------------------------------------------------------------
(* Claims about the binding of a document to a source file (Spec) *)

\* where the packages of the graphs lie on disk: package 1 in /ws, package 2
\* in /ot; a source's name is relative to its package's directory
PackageRoot(p) == IF p = 1 THEN <<"ws">> ELSE <<"ot">>

\* the sources of the graph that lie at the URI's path
SourcesAt(g, uri) ==
    {s \in UNION {Range(g[i].sources) : i \in 1..Len(g)} :
        PackageRoot(s.package) \o s.name = uri.path}

Binding(file) == <<file.id, file.name, file.package>>

\* the step adds a document for u, or binds u's document to another source
Binds(u) ==
    /\ HasDocument(source_files', u)
    /\ \/ ~HasDocument(source_files, u)
       \/ Binding(get_document(source_files, u).file)
             # Binding(get_document(source_files', u).file)

\* C40: when didOpen(u, t) adds a document, the VFS entry for u carries the
\* id, name and package of the project source file located at u: a document
\* opened from the second of two packages that each hold a source of the
\* same relative name is not bound to the first package's source file.
C40_BoundToSourceAtUri ==
    [][\A u \in Uris :
          (Binds(u) /\ SourcesAt(graph, u) # {}) =>
              \E s \in SourcesAt(graph, u) :
                  Binding(get_document(source_files', u).file) = Binding(s)]_vars

====
